---------------------------- MODULE Spec2Model ----------------------------
(***************************************************************************)
(* A model of sanctuary-def (src/index.js): the representation of types,   *)
(* candidate-type inference, the type-variable solver and the curried      *)
(* dispatch layer built by $.create.                                       *)
(*                                                                         *)
(* JavaScript values are modelled as records [tag, prim, keys, items]:     *)
(* tag is the value's $$type, prim tells primitives of one tag apart,      *)
(* items are an Array's elements or an Object's field values, keys are an  *)
(* Object's (sorted) field names.                                          *)
(*                                                                         *)
(* A Type is a record [type, name, keys, types, test]: the fields of the   *)
(* object createType returns, with the extractors determined by the name   *)
(* of the type and `test` telling which predicate createType was given:    *)
(* <<>> for the predicate that belongs to the name, <<t>> for t._test      *)
(* (fromUnaryType and xprod build types whose predicate is the _test of    *)
(* the type they specialise).                                              *)
(*                                                                         *)
(* Six specifications drive the model: SpecValidate (T.validate and        *)
(* $.test on a type and a value), SpecInfer (determineActualTypesStrict on *)
(* a growing list of values), SpecSolver (satisfactoryTypes and            *)
(* updateTypeVarMap, step by step from the empty TypeVarMap), SpecDispatch *)
(* (user code calling the curried callables of one definition, and the     *)
(* wrapped function a call handed back), SpecDef (def on signatures of     *)
(* every length) and SpecGraph (_determineActualTypes, frame by frame, on  *)
(* Array objects that may contain themselves or each other; SpecGraphFair  *)
(* adds that the interpreter keeps running the call).                      *)
(***************************************************************************)
EXTENDS Integers, Sequences, FiniteSets, TLC

VARIABLES
  vT, vX, vRes,            \* the validate harness: a type, a value, T.validate(x)
  vTest,                   \* and the last $.test(env, T, x)
  iEnv, iVals, iOut, iPrev,\* the inference harness: env, observed values,
                           \* the candidates for them and for all but the last
  sEnv, sInfo,             \* the solver harness: env, the signature (TypeInfo),
  sHeap, sCur,             \* the TypeVarMap objects, the current TypeVarMap,
  sLast, sSteps,           \* the last solver step, the number of steps taken
  dDef, dPool,             \* dispatch: the definition, the values arguments are
                           \* drawn from,
  dMaps, dArrays,          \* the TypeVarMap objects, the values arrays,
  dFns, dLast,             \* the callables user code holds, the last call
  dHeld,                   \* the wrapped function user code holds, its box
  gObjects, gLoose,        \* inference on a value graph: the Array objects,
  gStack, gOut             \* the frames of _determineActualTypes, its result

vars == <<vT, vX, vRes, vTest, iEnv, iVals, iOut, iPrev,
          sEnv, sInfo, sHeap, sCur, sLast, sSteps,
          dDef, dPool, dMaps, dArrays, dFns, dLast, dHeld,
          gObjects, gLoose, gStack, gOut>>

inferVars    == <<iEnv, iVals, iOut, iPrev>>
validateVars == <<vT, vX, vRes, vTest>>
solverVars   == <<sEnv, sInfo, sHeap, sCur, sLast, sSteps>>
dispatchVars == <<dDef, dPool, dMaps, dArrays, dFns, dLast, dHeld>>
graphVars    == <<gObjects, gLoose, gStack, gOut>>

-----------------------------------------------------------------------------
(* Values *)

Val(tag, prim, keys, items) ==
  [tag |-> tag, prim |-> prim, keys |-> keys, items |-> items]

Num(n)     == Val("Number", n, <<>>, <<>>)
Str(n)     == Val("String", n, <<>>, <<>>)
Bool(n)    == Val("Boolean", n, <<>>, <<>>)
Null       == Val("Null", 0, <<>>, <<>>)
Undefined  == Val("Undefined", 0, <<>>, <<>>)
Arr(items) == Val("Array", 0, <<>>, items)
Obj(keys, items) == Val("Object", 0, keys, items)
Fn(n)      == Val("Function", n, <<>>, <<>>)

\* x[k] for an own property k of an Object
Prop(x, k) == x.items[CHOOSE i \in 1..Len(x.keys) : x.keys[i] = k]

\* hasOwnProperty.call(x, k)
HasOwn(x, k) == \E i \in 1..Len(x.keys) : x.keys[i] = k

\* $.__
Placeholder == Obj(<<"@@functional/placeholder">>, <<Bool(1)>>)

-----------------------------------------------------------------------------
(* Sequence helpers: Z.chain, Z.map, Z.reduce and Array.prototype.filter *)

RECURSIVE Flatten(_)
Flatten(ss) == IF ss = <<>> THEN <<>> ELSE Head(ss) \o Flatten(Tail(ss))

Last(xs) == xs[Len(xs)]

isEmpty(xs) == Len(xs) = 0

or(xs, ys) == IF isEmpty(xs) THEN ys ELSE xs

RECURSIVE Filter(_, _)
Filter(xs, keep) ==
  IF xs = <<>> THEN <<>>
  ELSE (IF keep[1] THEN <<Head(xs)>> ELSE <<>>) \o Filter(Tail(xs), Tail(keep))

Range(xs) == {xs[i] : i \in 1..Len(xs)}

-----------------------------------------------------------------------------
(* Types *)

BINARY        == "BINARY"
FUNCTION      == "FUNCTION"
INCONSISTENT  == "INCONSISTENT"
NULLARY       == "NULLARY"
RECORD        == "RECORD"
UNARY         == "UNARY"
UNKNOWN       == "UNKNOWN"
VARIABLE_     == "VARIABLE"

createType(typeName, name, test, keys, types) ==
  [type |-> typeName, name |-> name, keys |-> keys, types |-> types,
   test |-> test]

\* t.types[k].type
Child(t, k) == t.types[CHOOSE i \in 1..Len(t.keys) : t.keys[i] = k]

Inconsistent == createType(INCONSISTENT, "", <<>>, <<>>, <<>>)
Unknown      == createType(UNKNOWN, "", <<>>, <<>>, <<>>)

NullaryType(name) == createType(NULLARY, name, <<>>, <<>>, <<>>)

UnaryType(name, test, t1) == createType(UNARY, name, test, <<"$1">>, <<t1>>)

BinaryType(name, test, t1, t2) ==
  createType(BINARY, name, test, <<"$1", "$2">>, <<t1, t2>>)

\* fields: the sorted field names and the type of each
RecordType(keys, types) == createType(RECORD, "", <<>>, keys, types)

FunctionType(types) ==
  createType(FUNCTION, "", <<>>,
             [i \in 1..Len(types) |-> IF i = 1 THEN "$1" ELSE
                                      IF i = 2 THEN "$2" ELSE "$3"],
             types)

TypeVariable(name) == createType(VARIABLE_, name, <<>>, <<>>, <<>>)

UnaryTypeVariable(name, t1) ==
  createType(VARIABLE_, name, <<>>, <<"$1">>, <<t1>>)

BinaryTypeVariable(name, t1, t2) ==
  createType(VARIABLE_, name, <<>>, <<"$1", "$2">>, <<t1, t2>>)

\* A faulty fromUnaryType: the new type is recognised by its name alone
fromUnaryTypeByName(t, t1) == UnaryType(t.name, <<>>, t1)

fromUnaryType(t, t1) == UnaryType(t.name, <<t>>, t1)

\* Z.map(fromUnaryType(t), types)
lift(t, types) == [i \in 1..Len(types) |-> fromUnaryType(t, types[i])]

\* xprod: specialize($1, $2) for every $1 of s1 and every $2 of s2, $1 major
xprod(t, s1, s2) ==
  Flatten([i \in 1..Len(s1) |->
             [j \in 1..Len(s2) |-> BinaryType(t.name, <<t>>, s1[i], s2[j])]])

\* The catalogue's types (the default environment is made of these)
TNumber    == NullaryType("Number")
TString    == NullaryType("String")
TNull      == NullaryType("Null")
TObject    == NullaryType("Object")
TAny       == NullaryType("sanctuary-def/Any")
TInteger   == NullaryType("sanctuary-def/Integer")
TArray(t)  == UnaryType("Array", <<>>, t)
TNullable(t) == UnaryType("sanctuary-def/Nullable", <<>>, t)
TStrMap(t) == UnaryType("sanctuary-def/StrMap", <<>>, t)
TPair(a, b) == BinaryType("sanctuary-def/Pair", <<>>, a, b)

\* The predicate that belongs to a type's name (the `test` the catalogue,
\* RecordType, $.Function and the type-variable constructors hand to
\* createType).  Number n stands for an integer exactly when n is even.
NamedTest(t, x) ==
  CASE t.type = UNKNOWN      -> TRUE
    [] t.type = INCONSISTENT -> FALSE
    [] t.type = VARIABLE_     -> TRUE
    [] t.type = FUNCTION     -> x.tag = "Function"
    [] t.type = RECORD       ->
         /\ x.tag \notin {"Null", "Undefined"}
         /\ \A i \in 1..Len(t.keys) : HasOwn(x, t.keys[i])
    [] t.name = "sanctuary-def/Any"      -> TRUE
    [] t.name = "sanctuary-def/Nullable" -> TRUE
    [] t.name = "sanctuary-def/StrMap"   -> x.tag = "Object"
    [] t.name = "sanctuary-def/Pair"     -> x.tag = "Array" /\ Len(x.items) = 2
    [] t.name = "sanctuary-def/Integer"  -> x.tag = "Number" /\ x.prim % 2 = 0
    [] OTHER -> x.tag = t.name

\* t.types[k].extractor(x)
extractor(t, k, x) ==
  CASE t.type \in {VARIABLE_, FUNCTION} -> <<>>
    [] t.type = RECORD -> <<Prop(x, k)>>
    [] t.name = "sanctuary-def/Nullable" -> IF x = Null THEN <<>> ELSE <<x>>
    [] t.name = "sanctuary-def/Pair" ->
         IF k = "$1" THEN <<x.items[1]>> ELSE <<x.items[2]>>
    [] OTHER -> x.items

Left(value, propPath)  == [isRight |-> FALSE, value |-> value, propPath |-> propPath]
Right(x) == [isRight |-> TRUE, value |-> x, propPath |-> <<>>]

RECURSIVE validate(_, _)
RECURSIVE validateFrom(_, _, _, _)

\* the `test` createType was given
test_(t, x) ==
  IF t.test = <<>> THEN NamedTest(t, x) ELSE validate(t.test[1], x).isRight

\* A faulty validate loop: a sub-type's failure path is passed on as it is
validateFromNoPrefix(t, x, idx, idx2) ==
  IF idx > Len(t.keys) THEN Right(x)
  ELSE LET k  == t.keys[idx]
           ys == extractor(t, k, x)
           next(result) ==
             IF ~result.isRight
               THEN Left(result.value, result.propPath)
               ELSE validateFrom(t, x, idx, idx2 + 1)
       IN IF idx2 > Len(ys) THEN validateFrom(t, x, idx + 1, 1)
          ELSE next(validate(t.types[idx], ys[idx2]))

\* The loops of validate, from key idx and extracted value idx2 on
validateFrom(t, x, idx, idx2) ==
  IF idx > Len(t.keys) THEN Right(x)
  ELSE LET k  == t.keys[idx]
           ys == extractor(t, k, x)
           next(result) ==
             IF ~result.isRight
               THEN Left(result.value, <<k>> \o result.propPath)
               ELSE validateFrom(t, x, idx, idx2 + 1)
       IN IF idx2 > Len(ys) THEN validateFrom(t, x, idx + 1, 1)
          ELSE next(validate(t.types[idx], ys[idx2]))

validate(t, x) ==
  IF ~test_(t, x) THEN Left(x, <<>>) ELSE validateFrom(t, x, 1, 1)

_test(t, x) == validate(t, x).isRight

-----------------------------------------------------------------------------
(* Candidate-type inference *)

rejectInconsistent(types) ==
  Filter(types, [i \in 1..Len(types) |->
                   types[i].type # INCONSISTENT /\ types[i].type # UNKNOWN])

RECURSIVE _determineActualTypes(_, _, _, _, _)
RECURSIVE reduceRefine(_, _, _, _, _)

\* refine(types, value) of _determineActualTypes
refine(loose, env, seen, types, value) ==
  IF value \in Range(seen) THEN <<>>
  ELSE
    LET seen1 == IF value.tag \in {"Array", "Object", "Function"}
                   THEN Append(seen, value) ELSE seen
        one(t) ==
          IF t.name = "sanctuary-def/Nullable" \/ ~_test(t, value) THEN <<>>
          ELSE IF t.type = UNARY THEN
            lift(t, _determineActualTypes(loose, env, env, seen1,
                                          extractor(t, "$1", value)))
          ELSE IF t.type = BINARY THEN
            xprod(t,
                  IF Child(t, "$1").type = UNKNOWN
                    THEN _determineActualTypes(loose, env, env, seen1,
                                               extractor(t, "$1", value))
                    ELSE <<Child(t, "$1")>>,
                  IF Child(t, "$2").type = UNKNOWN
                    THEN _determineActualTypes(loose, env, env, seen1,
                                               extractor(t, "$2", value))
                    ELSE <<Child(t, "$2")>>)
          ELSE <<t>>
    IN Flatten([i \in 1..Len(types) |-> one(types[i])])

\* Z.reduce(refine, types, values)
reduceRefine(loose, env, seen, types, values) ==
  IF values = <<>> THEN types
  ELSE reduceRefine(loose, env, seen,
                    refine(loose, env, seen, types, Head(values)),
                    Tail(values))

_determineActualTypes(loose, env, types, seen, values) ==
  IF isEmpty(values) THEN <<Unknown>>
  ELSE or(reduceRefine(loose, env, seen, types, values),
          IF loose THEN <<Inconsistent>> ELSE <<>>)

determineActualTypesStrict(env, types, values) ==
  rejectInconsistent(_determineActualTypes(FALSE, env, types, <<>>, values))

determineActualTypesLoose(env, types, values) ==
  rejectInconsistent(_determineActualTypes(TRUE, env, types, <<>>, values))

-----------------------------------------------------------------------------
(* The type-variable solver                                                *)
(*                                                                         *)
(* TypeVarMaps are JavaScript objects with identity: `h` is the store of   *)
(* the TypeVarMap objects allocated so far (a sequence, an object's        *)
(* reference is its position) and the solver is written in store-passing   *)
(* style.  A TypeVarMap's content is a function from type-variable names   *)
(* to entries [types, valuesByPath]; valuesByPath is a function from keys  *)
(* to the values observed there.                                           *)

EmptyFn == [n \in {} |-> <<>>]

\* JSON.stringify(Z.concat([index], propPath)): one key per indexed path
PathKey(index, propPath) == [index |-> index, propPath |-> propPath]

\* A TypeClass's test, by the class's name
TypeClassTest(typeClass, x) ==
  CASE typeClass = "Semigroup" -> x.tag \in {"Array", "String"}
    [] typeClass = "Functor"   -> x.tag = "Array"
    [] OTHER -> TRUE

(* Deferred errors: what the thunk in a Left builds its Error from *)
NoError ==
  [kind |-> "none", index |-> 0, propPath |-> <<>>, value |-> Undefined,
   typeClass |-> "", valuesByPath |-> EmptyFn]

invalidValue(env, typeInfo, index, propPath, value) ==
  [kind |-> "Invalid value", index |-> index, propPath |-> propPath,
   value |-> value, typeClass |-> "", valuesByPath |-> EmptyFn]

typeClassConstraintViolation(env, typeInfo, typeClass, index, propPath, value) ==
  [kind |-> "Type-class constraint violation", index |-> index,
   propPath |-> propPath, value |-> value, typeClass |-> typeClass,
   valuesByPath |-> EmptyFn]

\* The positions of type t at argument `index` and of the types inside it:
\* what _underline visits, each with its indexed path
RECURSIVE positionsOf(_, _, _)
positionsOf(t, index, propPath) ==
  {[key |-> PathKey(index, propPath), t |-> t]}
    \cup UNION {positionsOf(t.types[i], index, Append(propPath, t.keys[i])) :
                i \in 1..Len(t.keys)}

\* underlineTypeVars: the positions of the signature that get a caret on
\* one line and a number on the next, those of a type variable for which
\* valuesByPath has a non-empty array
underlineTypeVars(typeInfo, valuesByPath) ==
  {pos.key : pos \in
     {q \in UNION {positionsOf(typeInfo.types[i], i - 1, <<>>) :
                     i \in 1..Len(typeInfo.types)} :
        /\ q.t.type = VARIABLE_
        /\ q.key \in DOMAIN valuesByPath
        /\ ~isEmpty(valuesByPath[q.key])}}

\* A faulty filter: every position of the variable is kept
keptKeysAll(env, index, propPath, valuesByPath) == DOMAIN valuesByPath

\* The keys typeVarConstraintViolation keeps: the position of the violation
\* and the positions whose values are incompatible with the values there
keptKeys(env, index, propPath, valuesByPath) ==
  {k \in DOMAIN valuesByPath :
     \/ k = PathKey(index, propPath)
     \/ isEmpty(determineActualTypesStrict(env, env,
           valuesByPath[PathKey(index, propPath)] \o valuesByPath[k]))}

\* carets: the positions underlined in the signature (and numbered under
\* it); listed: the positions whose values the message lists under a number
typeVarConstraintViolation(env, typeInfo, index, propPath, valuesByPath) ==
  LET error(keys) ==
        [kind |-> "Type-variable constraint violation", index |-> index,
         propPath |-> propPath, value |-> Undefined, typeClass |-> "",
         valuesByPath |-> valuesByPath,
         carets |-> underlineTypeVars(typeInfo,
                                      [k \in keys |-> valuesByPath[k]]),
         listed |-> {k \in keys : ~isEmpty(valuesByPath[k])}]
  IN error(keptKeys(env, index, propPath, valuesByPath))

SLeft(h, err) ==
  [isRight |-> FALSE, heap |-> h, typeVarMap |-> 0, types |-> <<>>, err |-> err]

SRight(h, typeVarMap, types) ==
  [isRight |-> TRUE, heap |-> h, typeVarMap |-> typeVarMap, types |-> types,
   err |-> NoError]

RECURSIVE satisfactoryTypes(_, _, _, _, _, _, _, _)
RECURSIVE observeValues(_, _, _, _, _)

\* A faulty $.test: a value no type of env accepts is rejected
testByEnvironment(env, t, x) ==
  /\ \E i \in 1..Len(env) : _test(env[i], x)
  /\ satisfactoryTypes(<<EmptyFn>>, env,
                       [name |-> "name", constraints |-> EmptyFn,
                        types |-> <<t>>],
                       1, t, 0, <<>>, <<x>>).isRight

\* $.test(env, t, x): the solver on a TypeVarMap {} of its own
test(env, t, x) ==
  satisfactoryTypes(<<EmptyFn>>, env,
                    [name |-> "name", constraints |-> EmptyFn, types |-> <<t>>],
                    1, t, 0, <<>>, <<x>>).isRight

\* The candidates one candidate t of typeVar becomes on observing value
\* (the function updateTypeVarMap chains over the entry's types)
refineCandidate(env, typeVar, t, value) ==
  IF ~test(env, t, value) THEN <<>>
  ELSE IF Len(typeVar.keys) > 0 THEN
    IF /\ t.type # RECORD
       /\ Len(t.keys) >= Len(typeVar.keys)
       /\ \A i \in (Len(t.keys) - Len(typeVar.keys) + 1)..Len(t.keys) :
            \/ isEmpty(extractor(t, t.keys[i], value))
            \/ ~isEmpty(determineActualTypesStrict(env, env,
                          extractor(t, t.keys[i], value)))
      THEN <<t>> ELSE <<>>
  ELSE IF t.type = UNARY THEN
    IF Child(t, "$1").type = UNKNOWN /\ ~isEmpty(extractor(t, "$1", value))
      THEN lift(t, determineActualTypesStrict(env, env,
                                              extractor(t, "$1", value)))
      ELSE <<t>>
  ELSE IF t.type = BINARY THEN
    xprod(t,
          IF Child(t, "$1").type = UNKNOWN /\ ~isEmpty(extractor(t, "$1", value))
            THEN determineActualTypesStrict(env, env, extractor(t, "$1", value))
            ELSE <<Child(t, "$1")>>,
          IF Child(t, "$2").type = UNKNOWN /\ ~isEmpty(extractor(t, "$2", value))
            THEN determineActualTypesStrict(env, env, extractor(t, "$2", value))
            ELSE <<Child(t, "$2")>>)
  ELSE <<t>>

\* A faulty values.forEach: every value is recorded, but only the first
\* refines the candidates
observeValuesFirstOnly(env, typeVar, key, entry, values) ==
  IF values = <<>> THEN entry
  ELSE [types |-> Flatten([i \in 1..Len(entry.types) |->
                    refineCandidate(env, typeVar, entry.types[i], Head(values))]),
        valuesByPath |-> [entry.valuesByPath EXCEPT ![key] = @ \o values]]

\* values.forEach of updateTypeVarMap, on the entry of typeVar
observeValues(env, typeVar, key, entry, values) ==
  IF values = <<>> THEN entry
  ELSE observeValues(env, typeVar, key,
         [types |-> Flatten([i \in 1..Len(entry.types) |->
                      refineCandidate(env, typeVar, entry.types[i], Head(values))]),
          valuesByPath |-> [entry.valuesByPath EXCEPT
                              ![key] = Append(@, Head(values))]],
         Tail(values))

\* The entry of typeVar before the values are observed: the given map's, or
\* a new one whose types are a copy of env; with an array for the key
entryFor(env, content, name, key) ==
  LET withKey(entry) ==
        IF key \in DOMAIN entry.valuesByPath THEN entry
        ELSE [entry EXCEPT !.valuesByPath = @ @@ (key :> <<>>)]
  IN withKey(IF name \in DOMAIN content THEN content[name]
             ELSE [types |-> env, valuesByPath |-> EmptyFn])

\* The content of the TypeVarMap updateTypeVarMap returns
updatedContent(env, content, typeVar, index, propPath, values) ==
  [n \in DOMAIN content \cup {typeVar.name} |->
     IF n = typeVar.name
       THEN observeValues(env, typeVar, PathKey(index, propPath),
                          entryFor(env, content, n, PathKey(index, propPath)),
                          values)
       ELSE content[n]]

\* A faulty updateTypeVarMap: it starts from the map it built last, not
\* from the one it is given
updateTypeVarMapFromLatest(h, env, typeVarMap, typeVar, index, propPath, values) ==
  [heap |-> Append(h, updatedContent(env, h[Len(h)], typeVar, index,
                                     propPath, values)),
   typeVarMap |-> Len(h) + 1]

\* A faulty updateTypeVarMap: the writes go to the object it was given
updateTypeVarMapInPlace(h, env, typeVarMap, typeVar, index, propPath, values) ==
  [heap |-> [h EXCEPT ![typeVarMap] =
               updatedContent(env, h[typeVarMap], typeVar, index, propPath,
                              values)],
   typeVarMap |-> typeVarMap]

\* updateTypeVarMap: a new object $typeVarMap holds the copied entries and
\* takes every write; the object it was given is only read.
updateTypeVarMap(h, env, typeVarMap, typeVar, index, propPath, values) ==
  [heap |-> Append(h, updatedContent(env, h[typeVarMap], typeVar, index,
                                     propPath, values)),
   typeVarMap |-> Len(h) + 1]

\* A faulty first loop: only the type's own predicate is applied
validateAllShallow(expType, values, idx) ==
  IF \E i \in idx..Len(values) : ~test_(expType, values[i])
    THEN Left(values[CHOOSE i \in idx..Len(values) :
                       ~test_(expType, values[i])], <<>>)
    ELSE Right(Undefined)

\* The first loop of satisfactoryTypes: the first Left of expType.validate
\* over the values from idx on, or a Right
RECURSIVE validateAll(_, _, _)
validateAll(expType, values, idx) ==
  IF idx > Len(values) THEN Right(Undefined)
  ELSE LET next(result) ==
             IF ~result.isRight THEN result
             ELSE validateAll(expType, values, idx + 1)
       IN next(validate(expType, values[idx]))

\* A faulty type-class loop: only the first value is tested
RECURSIVE failingTypeClassFirstValue(_, _, _, _)
failingTypeClassFirstValue(typeClasses, values, idx, idx2) ==
  IF idx > 1 \/ idx > Len(values) THEN <<>>
  ELSE IF idx2 > Len(typeClasses) THEN <<>>
  ELSE IF ~TypeClassTest(typeClasses[idx2], values[idx])
    THEN <<typeClasses[idx2], values[idx]>>
  ELSE failingTypeClassFirstValue(typeClasses, values, idx, idx2 + 1)

\* The type-class loops of the VARIABLE case: the first (value, TypeClass)
\* whose test fails, from value idx and class idx2 on; <<>> when none does
RECURSIVE failingTypeClass(_, _, _, _)
failingTypeClass(typeClasses, values, idx, idx2) ==
  IF idx > Len(values) THEN <<>>
  ELSE IF idx2 > Len(typeClasses)
    THEN failingTypeClass(typeClasses, values, idx + 1, 1)
  ELSE IF ~TypeClassTest(typeClasses[idx2], values[idx])
    THEN <<typeClasses[idx2], values[idx]>>
  ELSE failingTypeClass(typeClasses, values, idx, idx2 + 1)

\* The inner-membership check of the VARIABLE case: the reduce over okTypes
\* from candidate i and inner value j on; the first error, or NoError
\* A faulty inner check: of the values a candidate's extractor yields, only
\* the first is tested
RECURSIVE checkInnerFirstValue(_, _, _, _, _, _, _, _, _)
checkInnerFirstValue(env, typeInfo, expType, index, propPath, values, okTypes, i, j) ==
  IF i > Len(okTypes) THEN NoError
  ELSE IF isEmpty(expType.keys) \/ isEmpty(okTypes[i].keys)
    THEN checkInnerFirstValue(env, typeInfo, expType, index, propPath, values,
                              okTypes, i + 1, 1)
  ELSE
    LET k == Last(okTypes[i].keys)
        innerValues == Flatten([n \in 1..Len(values) |->
                                  extractor(okTypes[i], k, values[n])])
    IN IF j > Len(innerValues) \/ j > 1
         THEN checkInnerFirstValue(env, typeInfo, expType, index, propPath,
                                   values, okTypes, i + 1, 1)
       ELSE IF \/ expType.types[1].type = VARIABLE_
               \/ test(env, expType.types[1], innerValues[j])
         THEN checkInnerFirstValue(env, typeInfo, expType, index, propPath,
                                   values, okTypes, i, j + 1)
       ELSE invalidValue(env, typeInfo, index, Append(propPath, k),
                         innerValues[j])

\* A faulty inner check: the extracted values are tested against the last
\* declared child of the expected type
RECURSIVE checkInnerLastChild(_, _, _, _, _, _, _, _, _)
checkInnerLastChild(env, typeInfo, expType, index, propPath, values, okTypes, i, j) ==
  IF i > Len(okTypes) THEN NoError
  ELSE IF isEmpty(expType.keys) \/ isEmpty(okTypes[i].keys)
    THEN checkInnerLastChild(env, typeInfo, expType, index, propPath, values,
                             okTypes, i + 1, 1)
  ELSE
    LET k == Last(okTypes[i].keys)
        innerValues == Flatten([n \in 1..Len(values) |->
                                  extractor(okTypes[i], k, values[n])])
    IN IF j > Len(innerValues)
         THEN checkInnerLastChild(env, typeInfo, expType, index, propPath,
                                  values, okTypes, i + 1, 1)
       ELSE IF \/ Last(expType.types).type = VARIABLE_
               \/ test(env, Last(expType.types), innerValues[j])
         THEN checkInnerLastChild(env, typeInfo, expType, index, propPath,
                                  values, okTypes, i, j + 1)
       ELSE invalidValue(env, typeInfo, index, Append(propPath, k),
                         innerValues[j])

RECURSIVE checkInner(_, _, _, _, _, _, _, _, _)
checkInner(env, typeInfo, expType, index, propPath, values, okTypes, i, j) ==
  IF i > Len(okTypes) THEN NoError
  ELSE IF isEmpty(expType.keys) \/ isEmpty(okTypes[i].keys)
    THEN checkInner(env, typeInfo, expType, index, propPath, values,
                    okTypes, i + 1, 1)
  ELSE
    LET k == Last(okTypes[i].keys)
        innerValues == Flatten([n \in 1..Len(values) |->
                                  extractor(okTypes[i], k, values[n])])
    IN IF j > Len(innerValues)
         THEN checkInner(env, typeInfo, expType, index, propPath, values,
                         okTypes, i + 1, 1)
       ELSE IF \/ expType.types[1].type = VARIABLE_
               \/ test(env, expType.types[1], innerValues[j])
         THEN checkInner(env, typeInfo, expType, index, propPath, values,
                         okTypes, i, j + 1)
       ELSE invalidValue(env, typeInfo, index, Append(propPath, k),
                         innerValues[j])

\* Z.chain(expType.types[k].extractor, values)
extractAll(expType, k, values) ==
  Flatten([n \in 1..Len(values) |-> extractor(expType, k, values[n])])

\* A faulty fold: every field is solved under the map the record was given
RECURSIVE recordFieldsUnthreaded(_, _, _, _, _, _, _, _, _)
recordFieldsUnthreaded(h, env, typeInfo, typeVarMap, expType, index, propPath, values, i) ==
  IF i > Len(expType.keys) THEN SRight(h, typeVarMap, <<expType>>)
  ELSE
    LET next(r) ==
          IF ~r.isRight THEN r
          ELSE recordFieldsUnthreaded(r.heap, env, typeInfo, typeVarMap,
                                      expType, index, propPath, values, i + 1)
    IN next(satisfactoryTypes(h, env, typeInfo, typeVarMap, expType.types[i],
              index, Append(propPath, expType.keys[i]),
              extractAll(expType, expType.keys[i], values)))

\* The fold over a Record's keys, from key i on
RECURSIVE recordFields(_, _, _, _, _, _, _, _, _)
recordFields(h, env, typeInfo, typeVarMap, expType, index, propPath, values, i) ==
  IF i > Len(expType.keys) THEN SRight(h, typeVarMap, <<expType>>)
  ELSE
    LET next(r) ==
          IF ~r.isRight THEN r
          ELSE recordFields(r.heap, env, typeInfo, r.typeVarMap, expType,
                            index, propPath, values, i + 1)
    IN next(satisfactoryTypes(h, env, typeInfo, typeVarMap, expType.types[i],
              index, Append(propPath, expType.keys[i]),
              extractAll(expType, expType.keys[i], values)))

\* A faulty VARIABLE case: an empty candidate list is a violation also
\* when no value was observed
variableCaseStrict(h, env, typeInfo, typeVarMap, expType, index, propPath, values) ==
  LET inner(u, okTypes, e) ==
        IF e.kind = "none" THEN SRight(u.heap, u.typeVarMap, okTypes)
        ELSE SLeft(u.heap, e)
      updated(u, entry) ==
        IF isEmpty(entry.types)
          THEN SLeft(u.heap, typeVarConstraintViolation(env, typeInfo, index,
                                propPath, entry.valuesByPath))
          ELSE inner(u, entry.types,
                     checkInner(env, typeInfo, expType, index, propPath,
                                values, entry.types, 1, 1))
      after(u) == updated(u, u.heap[u.typeVarMap][expType.name])
  IN after(updateTypeVarMap(h, env, typeVarMap, expType, index, propPath,
                            values))

\* A faulty VARIABLE case: the values inside the container are recorded for
\* the inner type variable
variableCaseRecordingInner(h, env, typeInfo, typeVarMap, expType, index, propPath, values) ==
  LET recorded(u, okTypes) == SRight(u.heap, u.typeVarMap, okTypes)
      inner(u, okTypes, e) ==
        IF e.kind # "none" THEN SLeft(u.heap, e)
        ELSE IF /\ ~isEmpty(expType.keys) /\ ~isEmpty(okTypes)
                /\ expType.types[1].type = VARIABLE_
          THEN recorded(updateTypeVarMap(u.heap, env, u.typeVarMap,
                          expType.types[1], index,
                          Append(propPath, expType.keys[1]),
                          extractAll(okTypes[1], Last(okTypes[1].keys), values)),
                        okTypes)
        ELSE SRight(u.heap, u.typeVarMap, okTypes)
      updated(u, entry) ==
        IF isEmpty(entry.types) /\ ~isEmpty(values)
          THEN SLeft(u.heap, typeVarConstraintViolation(env, typeInfo, index,
                                propPath, entry.valuesByPath))
          ELSE inner(u, entry.types,
                     checkInner(env, typeInfo, expType, index, propPath,
                                values, entry.types, 1, 1))
      after(u) == updated(u, u.heap[u.typeVarMap][expType.name])
  IN after(updateTypeVarMap(h, env, typeVarMap, expType, index, propPath,
                            values))

\* The VARIABLE case once the type classes are satisfied
variableCase(h, env, typeInfo, typeVarMap, expType, index, propPath, values) ==
  LET inner(u, okTypes, e) ==
        IF e.kind = "none" THEN SRight(u.heap, u.typeVarMap, okTypes)
        ELSE SLeft(u.heap, e)
      updated(u, entry) ==
        IF isEmpty(entry.types) /\ ~isEmpty(values)
          THEN SLeft(u.heap, typeVarConstraintViolation(env, typeInfo, index,
                                propPath, entry.valuesByPath))
          ELSE inner(u, entry.types,
                     checkInner(env, typeInfo, expType, index, propPath,
                                values, entry.types, 1, 1))
      after(u) == updated(u, u.heap[u.typeVarMap][expType.name])
  IN after(updateTypeVarMap(h, env, typeVarMap, expType, index, propPath,
                            values))

satisfactoryTypes(h, env, typeInfo, typeVarMap, expType, index, propPath, values) ==
  LET typeClasses ==
        IF expType.name \in DOMAIN typeInfo.constraints
          THEN typeInfo.constraints[expType.name] ELSE <<>>
      variable(failing) ==
        IF failing # <<>>
          THEN SLeft(h, typeClassConstraintViolation(env, typeInfo, failing[1],
                          index, propPath, failing[2]))
          ELSE variableCase(h, env, typeInfo, typeVarMap, expType, index,
                            propPath, values)
      unary(result) ==
        IF ~result.isRight THEN result
        ELSE SRight(result.heap, result.typeVarMap,
                    lift(expType, or(result.types, <<Child(expType, "$1")>>)))
      binary2(r1, r2) ==
        IF ~r2.isRight THEN r2
        ELSE SRight(r2.heap, r2.typeVarMap,
                    xprod(expType,
                          or(r1.types, <<Child(expType, "$1")>>),
                          or(r2.types, <<Child(expType, "$2")>>)))
      binary1(r1) ==
        IF ~r1.isRight THEN r1
        ELSE binary2(r1, satisfactoryTypes(r1.heap, env, typeInfo, r1.typeVarMap,
                           Child(expType, "$2"), index, Append(propPath, "$2"),
                           extractAll(expType, "$2", values)))
      checked(result) ==
        IF ~result.isRight
          THEN SLeft(h, invalidValue(env, typeInfo, index, result.propPath,
                                     result.value))
        ELSE IF expType.type = VARIABLE_
          THEN variable(failingTypeClass(typeClasses, values, 1, 1))
        ELSE IF expType.type = UNARY
          THEN unary(satisfactoryTypes(h, env, typeInfo, typeVarMap,
                       Child(expType, "$1"), index, Append(propPath, "$1"),
                       extractAll(expType, "$1", values)))
        ELSE IF expType.type = BINARY
          THEN binary1(satisfactoryTypes(h, env, typeInfo, typeVarMap,
                         Child(expType, "$1"), index, Append(propPath, "$1"),
                         extractAll(expType, "$1", values)))
        ELSE IF expType.type = RECORD
          THEN recordFields(h, env, typeInfo, typeVarMap, expType, index,
                            propPath, values, 1)
        ELSE SRight(h, typeVarMap, <<expType>>)
  IN checked(validateAll(expType, values, 1))

-----------------------------------------------------------------------------
(* Dispatch: the curried callables $.create's def builds                   *)
(*                                                                         *)
(* d stands for what the closures of one definition share: checkTypes and  *)
(* env (of create), typeInfo and impl (of def).  The values arrays are     *)
(* JavaScript objects with identity, kept like the TypeVarMaps in a store  *)
(* `ha` (`hm` is the TypeVarMaps').  An implementation is [kind |-> "arg", *)
(* i |-> k], which returns its k-th argument, or [kind |-> "const",        *)
(* value |-> v], which returns v.                                          *)

\* typeof x === 'object' && x != null && x['@@functional/placeholder'] === true
isPlaceholder(x) ==
  /\ x.tag \in {"Object", "Array"}
  /\ HasOwn(x, "@@functional/placeholder")
  /\ Prop(x, "@@functional/placeholder") = Bool(1)

\* arguments[idx]
Arg(args, idx) == IF idx < Len(args) THEN args[idx + 1] ELSE Undefined

\* A faulty test: the number of arguments is not looked at
takesArgumentAnyLength(args, idx) == ~isPlaceholder(Arg(args, idx))

\* The test of curried's loop: argument idx was supplied and is no placeholder
takesArgument(args, idx) == idx < Len(args) /\ ~isPlaceholder(Arg(args, idx))

invalidArgumentsLength(name, expectedLength, actualLength) ==
  [kind |-> "Wrong arity", name |-> name, expected |-> expectedLength,
   received |-> actualLength]

\* A faulty arity check: the error tells the number of arguments of the call
arityCheckCountsCall(d, _indexes, args) ==
  IF d.checkTypes /\ Len(_indexes) - Len(args) < 0
    THEN invalidArgumentsLength(d.typeInfo.name, Len(d.typeInfo.types) - 1,
                                Len(args))
    ELSE NoError

\* A faulty arity check: one surplus argument is let through
arityCheckOffByOne(d, _indexes, args) ==
  IF d.checkTypes /\ Len(_indexes) - Len(args) < -1
    THEN invalidArgumentsLength(d.typeInfo.name, Len(d.typeInfo.types) - 1,
           (Len(d.typeInfo.types) - 1) - (Len(_indexes) - Len(args)))
    ELSE NoError

\* The arity check at the head of curried: the error it throws, or NoError
arityCheck(d, _indexes, args) ==
  IF d.checkTypes /\ Len(_indexes) - Len(args) < 0
    THEN invalidArgumentsLength(d.typeInfo.name, Len(d.typeInfo.types) - 1,
           (Len(d.typeInfo.types) - 1) - (Len(_indexes) - Len(args)))
    ELSE NoError

\* A faulty copy: curried writes into the array the callable captured
copyValuesShared(ha, _values) == [arrays |-> ha, values |-> _values]

\* values = _values.slice(): a new array object
copyValues(ha, _values) ==
  [arrays |-> Append(ha, ha[_values]), values |-> Len(ha) + 1]

\* A faulty store: the value goes to the argument's position in the call
storeValueAtIdx(ha, values, index, idx, value) ==
  [ha EXCEPT ![values][idx + 1] = value]

\* values[index] = value
storeValue(ha, values, index, idx, value) ==
  [ha EXCEPT ![values][index + 1] = value]

\* A faulty check: a rejected argument is stored like an accepted one
checkArgumentLenient(d, hm, typeVarMap, index, value) ==
  SRight(hm, typeVarMap, <<>>)

\* A faulty check: the solver runs whatever checkTypes is
checkArgumentAlways(d, hm, typeVarMap, index, value) ==
  satisfactoryTypes(hm, d.env, d.typeInfo, typeVarMap,
                    d.typeInfo.types[index + 1], index, <<>>, <<value>>)

\* The solver step for one supplied argument; with checkTypes off there is
\* none and the TypeVarMap stays as it is
checkArgument(d, hm, typeVarMap, index, value) ==
  IF d.checkTypes
    THEN satisfactoryTypes(hm, d.env, d.typeInfo, typeVarMap,
                           d.typeInfo.types[index + 1], index, <<>>, <<value>>)
    ELSE SRight(hm, typeVarMap, <<>>)

\* curried's loop over _indexes from idx on.  st is the state of the call:
\* the stores, typeVarMap, values (a reference), indexes, and the error an
\* assertRight has thrown (the loop ends there)
RECURSIVE supply(_, _, _, _, _)
supply(d, _indexes, args, idx, st) ==
  IF idx >= Len(_indexes) THEN st
  ELSE
    LET index == _indexes[idx + 1]
        checked(r) ==
          IF ~r.isRight THEN [st EXCEPT !.maps = r.heap, !.err = r.err]
          ELSE supply(d, _indexes, args, idx + 1,
                 [st EXCEPT !.maps = r.heap,
                            !.typeVarMap = r.typeVarMap,
                            !.arrays = storeValue(st.arrays, st.values, index,
                                                  idx, Arg(args, idx))])
    IN IF takesArgument(args, idx)
         THEN checked(checkArgument(d, st.maps, st.typeVarMap, index,
                                    Arg(args, idx)))
         ELSE supply(d, _indexes, args, idx + 1,
                     [st EXCEPT !.indexes = Append(@, index)])

\* A function of user code: it returns value whatever it is applied to
UserFn(value) == Val("Function", 0, <<>>, <<value>>)

\* What running user code comes to: the TypeVarMap objects, the map in the
\* box, the error thrown (NoError if none), the value returned, the values
\* checkValue was applied to and the argument lists user functions received
Outcome(maps, box, err, value, checked, invoked) ==
  [maps |-> maps, box |-> box, err |-> err, value |-> value,
   checked |-> checked, invoked |-> invoked]

\* A faulty checkValue: a value for a type variable is first tested against
\* the TypeClasses the signature lists for the variable
checkValueWithClasses(d, o, index, propPath, t, value) ==
  IF t.type = VARIABLE_
    THEN LET typeClasses ==
               IF t.name \in DOMAIN d.typeInfo.constraints
                 THEN d.typeInfo.constraints[t.name] ELSE <<>>
             assigned(u) ==
               [o EXCEPT
                  !.maps = u.heap, !.box = u.typeVarMap,
                  !.checked = Append(@, value),
                  !.err = IF isEmpty(u.heap[u.typeVarMap][t.name].types)
                            THEN typeVarConstraintViolation(d.env, d.typeInfo,
                                   index, propPath,
                                   u.heap[u.typeVarMap][t.name].valuesByPath)
                            ELSE NoError]
         IN IF \E i \in 1..Len(typeClasses) : ~TypeClassTest(typeClasses[i], value)
              THEN [o EXCEPT
                      !.checked = Append(@, value),
                      !.err = typeClassConstraintViolation(d.env, d.typeInfo,
                                typeClasses[CHOOSE i \in 1..Len(typeClasses) :
                                  ~TypeClassTest(typeClasses[i], value)],
                                index, propPath, value)]
              ELSE assigned(updateTypeVarMap(o.maps, d.env, o.box, t, index,
                                             propPath, <<value>>))
    ELSE [o EXCEPT
            !.checked = Append(@, value),
            !.err = IF ~test(d.env, t, value)
                      THEN invalidValue(d.env, d.typeInfo, index, propPath,
                                        value)
                      ELSE NoError]

\* checkValue(env, typeInfo, $typeVarMapBox, index, propPath, t, value), from
\* the state o: the box is assigned before the candidates are looked at
checkValue(d, o, index, propPath, t, value) ==
  IF t.type = VARIABLE_
    THEN LET assigned(u) ==
               [o EXCEPT
                  !.maps = u.heap, !.box = u.typeVarMap,
                  !.checked = Append(@, value),
                  !.err = IF isEmpty(u.heap[u.typeVarMap][t.name].types)
                            THEN typeVarConstraintViolation(d.env, d.typeInfo,
                                   index, propPath,
                                   u.heap[u.typeVarMap][t.name].valuesByPath)
                            ELSE NoError]
         IN assigned(updateTypeVarMap(o.maps, d.env, o.box, t, index,
                                      propPath, <<value>>))
    ELSE [o EXCEPT
            !.checked = Append(@, value),
            !.err = IF ~test(d.env, t, value)
                      THEN invalidValue(d.env, d.typeInfo, index, propPath,
                                        value)
                      ELSE NoError]

invalidArgumentsLength_(env, typeInfo, index, numArgsExpected, args) ==
  [kind |-> "Wrong number of arguments", index |-> index,
   expected |-> numArgsExpected, received |-> args]

\* The forEach of the wrapper over all keys but the last, from key idx on;
\* a throw of checkValue ends it
RECURSIVE checkParameters(_, _, _, _, _)
checkParameters(d, o, index, args, idx) ==
  IF idx > Len(args) \/ o.err.kind # "none" THEN o
  ELSE checkParameters(d,
         checkValue(d, o, index, <<d.typeInfo.types[index + 1].keys[idx]>>,
                    d.typeInfo.types[index + 1].types[idx], args[idx]),
         index, args, idx + 1)

\* A faulty wrapper: the arguments are validated before they are counted
wrappedCountLast(d, o, index, f, args) ==
  LET expType == d.typeInfo.types[index + 1]
      counted(c) ==
        IF c.err.kind # "none" THEN c
        ELSE [c EXCEPT !.err = invalidArgumentsLength_(d.env, d.typeInfo,
                                 index, Len(expType.keys) - 1, args)]
  IN counted(checkParameters(d, o, index,
               SubSeq(args, 1, IF Len(args) < Len(expType.keys) - 1
                                 THEN Len(args) ELSE Len(expType.keys) - 1),
               1))

\* A call, with arguments args, of the function wrapFunction(env, typeInfo,
\* $typeVarMapBox, index, f) returns, from the state o; f.apply throws a
\* TypeError when f is not a function
wrapped(d, o, index, f, args) ==
  LET expType == d.typeInfo.types[index + 1]
      output(c) ==
        IF c.err.kind # "none" THEN c
        ELSE IF f.tag # "Function"
          THEN [c EXCEPT !.err = [kind |-> "not a function"]]
        ELSE checkValue(d,
               [c EXCEPT !.value = f.items[1], !.invoked = Append(@, args)],
               index, <<Last(expType.keys)>>, Last(expType.types),
               f.items[1])
  IN IF Len(args) # Len(expType.keys) - 1
       THEN [o EXCEPT !.err = invalidArgumentsLength_(d.env, d.typeInfo,
                                index, Len(expType.keys) - 1, args)]
       ELSE output(checkParameters(d, o, index, args, 1))

\* impl.apply(this, values), from the state o.  The implementations are
\* (..) => values[i], (..) => value, (..) => values[i](...value), which
\* calls its argument i with the items of value and returns the result, and
\* (..) => (values[i](value[0]), value[1]), which calls its argument i with
\* the first item of value and returns the second
apply(d, o, values) ==
  CASE d.impl.kind = "arg" -> [o EXCEPT !.value = values[d.impl.i + 1]]
    [] d.impl.kind = "const" -> [o EXCEPT !.value = d.impl.value]
    [] d.impl.kind \in {"call", "tell"} ->
         LET g == values[d.impl.i + 1]
             passed == IF d.impl.kind = "tell" THEN <<d.impl.value.items[1]>>
                       ELSE d.impl.value.items
             returned(c) ==
               IF d.impl.kind = "tell" /\ c.err.kind = "none"
                 THEN [c EXCEPT !.value = d.impl.value.items[2]]
                 ELSE c
         IN IF g.tag # "Function"
              THEN [o EXCEPT !.err = [kind |-> "not a function"]]
            ELSE IF HasOwn(g, "index")
              THEN returned(wrapped(d, o, Prop(g, "index").prim, Prop(g, "f"),
                                    passed))
            ELSE returned([o EXCEPT !.value = g.items[1],
                                    !.invoked = Append(@, passed)])

\* wrapFunctions: the values at positions of a Function type are wrapped
\* (a wrapper holds the position it stands at and the function f), the
\* others are passed as they are
wrapFunctions(typeInfo, values) ==
  [i \in 1..Len(values) |->
     IF typeInfo.types[i].type = FUNCTION
       THEN Val("Function", 0, <<"index", "f">>, <<Num(i - 1), values[i]>>)
       ELSE values[i]]

\* What a call of a curried callable comes to: kind is "raised" (err),
\* "value" (value) or "callable" (typeVarMap, values, indexes are what the
\* new callable captures); implArgs lists the arguments of each call of impl
Result(kind, st, value, err, implArgs) ==
  [kind |-> kind, maps |-> st.maps, arrays |-> st.arrays,
   typeVarMap |-> st.typeVarMap, values |-> st.values, indexes |-> st.indexes,
   value |-> value, err |-> err, implArgs |-> implArgs,
   checked |-> <<>>, invoked |-> <<>>, box |-> 0]

\* A faulty choice: the map in the box
returnMapFromBox(o, st) == o.box

\* The TypeVarMap the return value is validated under, o being the state
\* the implementation left and st the state the arguments led to
returnMap(o, st) == st.typeVarMap

\* The branch of curried taken when no index is left open
complete(d, st) ==
  LET trace(o, result) ==
        [result EXCEPT !.checked = o.checked, !.invoked = o.invoked,
                       !.box = o.box]
      validated(o, implArgs, r) ==
        IF r.isRight
          THEN Result("value", [st EXCEPT !.maps = r.heap], o.value,
                      NoError, <<implArgs>>)
          ELSE Result("raised", [st EXCEPT !.maps = r.heap], Undefined,
                      r.err, <<implArgs>>)
      returned(o, implArgs) ==
        IF o.err.kind # "none"
          THEN Result("raised", [st EXCEPT !.maps = o.maps], Undefined,
                      o.err, <<implArgs>>)
          ELSE validated(o, implArgs,
                 satisfactoryTypes(o.maps, d.env, d.typeInfo, returnMap(o, st),
                                   Last(d.typeInfo.types),
                                   Len(d.typeInfo.types) - 1, <<>>,
                                   <<o.value>>))
      unchecked(o, implArgs) ==
        IF o.err.kind # "none"
          THEN Result("raised", st, Undefined, o.err, <<implArgs>>)
          ELSE Result("value", st, o.value, NoError, <<implArgs>>)
      ran(o, implArgs) ==
        trace(o, IF d.checkTypes THEN returned(o, implArgs)
                 ELSE unchecked(o, implArgs))
      called(implArgs) ==
        ran(apply(d, Outcome(st.maps, st.typeVarMap, NoError, Undefined,
                             <<>>, <<>>), implArgs),
            implArgs)
  IN IF d.checkTypes
       THEN called(wrapFunctions(d.typeInfo, st.arrays[st.values]))
       ELSE called(st.arrays[st.values])

\* curried once its loop has ended
finish(d, st) ==
  IF st.err.kind # "none" THEN Result("raised", st, Undefined, st.err, <<>>)
  ELSE IF isEmpty(st.indexes) THEN complete(d, st)
  ELSE Result("callable", st, Undefined, NoError, <<>>)

\* A call, with arguments args, of the callable curry built from
\* (_typeVarMap, _values, _indexes)
curried(d, hm, ha, _typeVarMap, _values, _indexes, args) ==
  LET start(c) ==
        finish(d, supply(d, _indexes, args, 0,
                         [maps |-> hm, typeVarMap |-> _typeVarMap,
                          arrays |-> c.arrays, values |-> c.values,
                          indexes |-> <<>>, err |-> NoError]))
      checked(e) ==
        IF e.kind # "none"
          THEN Result("raised",
                      [maps |-> hm, typeVarMap |-> _typeVarMap, arrays |-> ha,
                       values |-> _values, indexes |-> _indexes],
                      Undefined, e, <<>>)
          ELSE start(copyValues(ha, _values))
  IN checked(arityCheck(d, _indexes, args))

\* range(0, n)
range(from, to) == [i \in 1..(to - from) |-> from + i - 1]

\* new Array(n)
newArray(n) == [i \in 1..n |-> Undefined]

-----------------------------------------------------------------------------
(* Bounds and input sets *)

MaxVals == 3

MaxSolve == 3

Atoms == {Num(1), Num(2), Str(1), Null}

Arrays1 == {Arr(<<>>)} \cup {Arr(<<a>>) : a \in {Num(1), Str(1)}}
             \cup {Arr(<<Num(1), Str(1)>>), Arr(<<Num(1), Num(2)>>)}

Arrays2 == {Arr(<<a>>) : a \in {Arr(<<>>), Arr(<<Num(1)>>), Arr(<<Str(1)>>)}}
             \cup {Arr(<<Arr(<<Num(1)>>), Arr(<<>>)>>)}

Values == Atoms \cup Arrays1 \cup Arrays2

\* $.env restricted to the types of the modelled values
DefaultEnv == <<TArray(Unknown), TNull, TNumber, TString>>

Envs == {DefaultEnv,
         <<TArray(Unknown), TNumber, TInteger, TString, TPair(Unknown, Unknown)>>,
         <<TNumber, TNullable(Unknown), TArray(Unknown)>>,
         <<>>}

-----------------------------------------------------------------------------
(* Signatures *)

a == TypeVariable("a")
b == TypeVariable("b")

TypeInfo(name, constraints, types) ==
  [name |-> name, constraints |-> constraints, types |-> types]

\* The signatures of the solver harness: a plain variable, a variable inside
\* a unary and a binary type, a unary type variable, and a variable with a
\* type-class constraint beside a concrete type
SolverInfos ==
  { TypeInfo("f", EmptyFn, <<a, TArray(a), TPair(a, b)>>),
    TypeInfo("k", EmptyFn, <<UnaryTypeVariable("f", a),
                             UnaryTypeVariable("f", TNumber), a>>),
    TypeInfo("c", [n \in {"a"} |-> <<"Semigroup">>],
             <<a, TArray(a), TPair(a, TString)>>),
    TypeInfo("p", EmptyFn,
             <<TPair(a, a), RecordType(<<"x", "y">>, <<a, a>>)>>),
    TypeInfo("u", EmptyFn, <<UnaryTypeVariable("f", TArray(TString))>>),
    TypeInfo("same", EmptyFn, <<a, a>>),
    TypeInfo("q", EmptyFn, <<BinaryTypeVariable("p", TNumber, TString)>>) }

SolverValues ==
  { Num(1), Arr(<<>>), Arr(<<Arr(<<>>), Arr(<<Num(1)>>)>>),
    Arr(<<Str(1), Num(1)>>) }

\* Pairs and records whose two parts are of one type, or of two
PairValues ==
  { Arr(<<Str(1), Num(1)>>), Arr(<<Arr(<<>>), Arr(<<Num(1)>>)>>),
    Obj(<<"x", "y">>, <<Num(1), Str(1)>>),
    Obj(<<"x", "y">>, <<Arr(<<Arr(<<>>), Arr(<<Num(1)>>)>>),
                        Arr(<<Arr(<<>>), Arr(<<Num(1)>>)>>)>>) }

\* Arrays of one Array: of nothing, of a Number, of a String
NestedValues ==
  { Arr(<<Arr(<<>>)>>), Arr(<<Arr(<<Num(1)>>)>>), Arr(<<Arr(<<Str(1)>>)>>) }

\* A Number and two Arrays with elements
FilledValues == SolverValues \ {Arr(<<>>)}

\* The values the harness observes under a signature
ValuesFor(typeInfo) ==
  IF typeInfo.name = "p" THEN PairValues
  ELSE IF typeInfo.name = "same" THEN NestedValues
  ELSE IF typeInfo.name = "k" THEN FilledValues
  ELSE SolverValues

SolverEnv == <<TArray(Unknown), TNumber, TString, TPair(Unknown, Unknown)>>

\* The (environment, signature) pairs the solver harness starts from
SolverSetups ==
  {<<SolverEnv, info>> : info \in SolverInfos}
    \cup {<<(<<>>), TypeInfo("e", EmptyFn, <<TArray(a)>>)>>}

-----------------------------------------------------------------------------
(* Idle values of the harnesses a specification does not drive *)

\* No $.test yet
NoTest == [tested |-> FALSE, env |-> <<>>, result |-> TRUE]

IdleValidate ==
  vT = Unknown /\ vX = Undefined /\ vRes = Right(Undefined) /\ vTest = NoTest

IdleInfer == iEnv = <<>> /\ iVals = <<>> /\ iOut = <<>> /\ iPrev = <<>>

NoStep ==
  [op |-> "none", index |-> 0, values |-> <<>>, input |-> 0, before |-> EmptyFn,
   isRight |-> TRUE, output |-> 0, err |-> NoError]

IdleSolver ==
  /\ sEnv = <<>> /\ sInfo = TypeInfo("", EmptyFn, <<>>)
  /\ sHeap = <<EmptyFn>> /\ sCur = 1 /\ sLast = NoStep /\ sSteps = 0

Impl(kind, i, value) == [kind |-> kind, i |-> i, value |-> value]

\* No call yet
NoCall ==
  [callee |-> 0, args |-> <<>>, kind |-> "none", value |-> Undefined,
   err |-> NoError, implArgs |-> <<>>, checked |-> <<>>, invoked |-> <<>>,
   box |-> EmptyFn,
   fn |-> [typeVarMap |-> EmptyFn, values |-> <<>>, indexes |-> <<>>]]

\* No inference on a value graph yet
NoInference == [done |-> FALSE, types |-> <<>>, aborted |-> FALSE]

IdleGraph ==
  gObjects = <<>> /\ gLoose = FALSE /\ gStack = <<>> /\ gOut = NoInference

\* No wrapped function is held
NotHeld ==
  [held |-> FALSE, fn |-> Undefined, box |-> EmptyFn, invocations |-> 0,
   err |-> NoError]

IdleDispatch ==
  /\ dDef = [checkTypes |-> FALSE, env |-> <<>>,
             typeInfo |-> TypeInfo("", EmptyFn, <<>>),
             impl |-> Impl("const", 0, Undefined)]
  /\ dPool = {}
  /\ dMaps = <<>> /\ dArrays = <<>> /\ dFns = <<>> /\ dLast = NoCall
  /\ dHeld = NotHeld

-----------------------------------------------------------------------------
(* The inference harness: determineActualTypesStrict on a growing list *)

InitInfer ==
  /\ iEnv \in Envs
  /\ iVals = <<>>
  /\ iOut = <<>>
  /\ iPrev = <<>>
  /\ IdleValidate /\ IdleSolver /\ IdleDispatch /\ IdleGraph

Observe(v) ==
  /\ Len(iVals) < MaxVals
  /\ iVals' = Append(iVals, v)
  /\ iOut' = determineActualTypesStrict(iEnv, iEnv, iVals')
  /\ iPrev' = iOut
  /\ UNCHANGED <<iEnv, validateVars, solverVars, dispatchVars, graphVars>>

NextInfer == \E v \in Values : Observe(v)

SpecInfer == InitInfer /\ [][NextInfer]_vars

-----------------------------------------------------------------------------
(* The solver harness: satisfactoryTypes as curry calls it, one argument   *)
(* of the signature at a time, and updateTypeVarMap as checkValue calls    *)
(* it.  sCur is the TypeVarMap the last successful step returned.          *)

InitSolver ==
  /\ \E setup \in SolverSetups : sEnv = setup[1] /\ sInfo = setup[2]
  /\ sHeap = <<EmptyFn>>
  /\ sCur = 1
  /\ sLast = NoStep
  /\ sSteps = 0
  /\ IdleValidate /\ IdleInfer /\ IdleDispatch /\ IdleGraph

\* satisfactoryTypes for argument `index` of the signature, as curry runs it
Solve(index, value) ==
  /\ sSteps < MaxSolve
  /\ \E r \in {satisfactoryTypes(sHeap, sEnv, sInfo, sCur,
                                  sInfo.types[index + 1], index, <<>>, <<value>>)} :
        /\ sHeap' = r.heap
        /\ sCur' = IF r.isRight THEN r.typeVarMap ELSE sCur
        /\ sLast' = [op |-> "satisfactoryTypes", index |-> index,
                     values |-> <<value>>, input |-> sCur,
                     before |-> sHeap[sCur], isRight |-> r.isRight,
                     output |-> r.typeVarMap, err |-> r.err]
  /\ sSteps' = sSteps + 1
  /\ UNCHANGED <<sEnv, sInfo, validateVars, inferVars, dispatchVars, graphVars>>

\* checkValue on a value that crosses a function argument at position
\* `index` where the signature has the type variable a: updateTypeVarMap, and
\* the new TypeVarMap is kept unless a is left without candidates
Update(index, value) ==
  /\ sSteps < MaxSolve
  /\ \E u \in {updateTypeVarMap(sHeap, sEnv, sCur, a, index, <<"$1">>,
                                 <<value>>)} :
        /\ sHeap' = u.heap
        /\ sCur' = IF isEmpty(u.heap[u.typeVarMap]["a"].types)
                     THEN sCur ELSE u.typeVarMap
        /\ sLast' = [op |-> "updateTypeVarMap", index |-> index,
                     values |-> <<value>>, input |-> sCur,
                     before |-> sHeap[sCur],
                     isRight |-> ~isEmpty(u.heap[u.typeVarMap]["a"].types),
                     output |-> u.typeVarMap, err |-> NoError]
  /\ sSteps' = sSteps + 1
  /\ UNCHANGED <<sEnv, sInfo, validateVars, inferVars, dispatchVars, graphVars>>

NextSolver ==
  \/ \E index \in 0..2, value \in ValuesFor(sInfo) :
       index < Len(sInfo.types) /\ Solve(index, value)
  \/ \E value \in {Num(1), Arr(<<>>)} : Update(0, value)

SpecSolver == InitSolver /\ [][NextSolver]_vars

-----------------------------------------------------------------------------
(* The validate harness: T.validate(x) for a type and a value *)

ValidateTypes ==
  { TNumber, TInteger, Unknown, Inconsistent, a, TArray(a),
    TArray(TNumber), TArray(TArray(TNumber)), TArray(Unknown),
    TNullable(TArray(TString)), TStrMap(TNumber),
    TPair(TNumber, TArray(TString)),
    fromUnaryType(TArray(Unknown), TString),
    RecordType(<<"x", "y">>, <<TNumber, TArray(TNumber)>>),
    RecordType(<<"p">>, <<RecordType(<<"x">>, <<TArray(TNumber)>>)>>) }

ValidateValues ==
  Values \cup
  { Undefined,
    Arr(<<Num(1), Arr(<<Str(1)>>)>>), Arr(<<Num(1), Arr(<<Num(1)>>)>>),
    Arr(<<Str(1), Arr(<<Num(1), Str(1)>>)>>),
    Arr(<<Arr(<<Num(1), Str(1)>>), Arr(<<Null>>)>>),
    Obj(<<>>, <<>>), Obj(<<"x">>, <<Num(1)>>),
    Obj(<<"x", "y">>, <<Num(1), Arr(<<Num(2), Str(1), Null>>)>>),
    Obj(<<"x", "y">>, <<Str(1), Arr(<<Str(1)>>)>>),
    Obj(<<"x", "y">>, <<Num(2), Arr(<<Num(1)>>)>>),
    Obj(<<"p">>, <<Obj(<<"x">>, <<Arr(<<Num(1), Null>>)>>)>>),
    Obj(<<"p", "q">>, <<Num(1), Str(1)>>) }

InitValidate ==
  IdleValidate /\ IdleInfer /\ IdleSolver /\ IdleDispatch /\ IdleGraph

Validate(t, x) ==
  /\ vT' = t
  /\ vX' = x
  /\ vRes' = validate(t, x)
  /\ vTest' = NoTest
  /\ UNCHANGED <<inferVars, solverVars, dispatchVars, graphVars>>

\* $.test(env, t, x) for the type and the value validate was last applied to
Test(env) ==
  /\ vTest' = [tested |-> TRUE, env |-> env, result |-> test(env, vT, vX)]
  /\ UNCHANGED <<vT, vX, vRes, inferVars, solverVars, dispatchVars, graphVars>>

NextValidate ==
  \/ \E t \in ValidateTypes, x \in ValidateValues : Validate(t, x)
  \/ \E env \in Envs : Test(env)

SpecValidate == InitValidate /\ [][NextValidate]_vars

-----------------------------------------------------------------------------
(* The dispatch harness: one definition made by def, and user code that    *)
(* calls the callables it holds (the definition and partial applications   *)
(* it has kept) in any order, any number of times.                         *)

MaxFns == 2

\* How many times user code applies a wrapped function it holds
MaxInvocations == 2

DispatchEnv == <<TArray(Unknown), TNumber, TString>>

\* The definitions: a signature, an implementation, and the values their
\* arguments are drawn from
Definitions ==
  { <<TypeInfo("sel", EmptyFn, <<TNumber, TString, TString>>),
      Impl("arg", 1, Undefined), {Num(1), Str(1)}>>,
    <<TypeInfo("same", EmptyFn, <<a, a, a>>),
      Impl("const", 0, Arr(<<Arr(<<Str(1)>>)>>)),
      {Arr(<<Arr(<<>>)>>), Arr(<<Arr(<<Num(1)>>)>>)}>>,
    <<TypeInfo("one", EmptyFn, <<TNumber>>),
      Impl("const", 0, Num(1)), {Num(1)}>>,
    <<TypeInfo("app", EmptyFn, <<FunctionType(<<a, a>>), a, a>>),
      Impl("call", 0, Arr(<<Str(1)>>)),
      {UserFn(Str(1)), Num(1)}>>,
    <<TypeInfo("sum", EmptyFn, <<FunctionType(<<TArray(a), a>>), a, a>>),
      Impl("call", 0, Arr(<<Arr(<<Str(1)>>)>>)),
      {UserFn(Num(1)), Num(1)}>>,
    <<TypeInfo("two", EmptyFn, <<FunctionType(<<a, a>>), a, a>>),
      Impl("call", 0, Arr(<<Str(1), Str(1)>>)),
      {UserFn(Num(1)), Num(1)}>>,
    <<TypeInfo("keep", EmptyFn,
               <<FunctionType(<<a, a>>), FunctionType(<<a, a>>)>>),
      Impl("arg", 0, Undefined), {UserFn(Num(1))}>>,
    <<TypeInfo("tell", [n \in {"b"} |-> <<"Semigroup">>],
               <<FunctionType(<<b, a>>), a, a>>),
      Impl("tell", 0, Arr(<<Num(1), Arr(<<Str(1)>>)>>)),
      {UserFn(Arr(<<Num(1)>>)), Arr(<<>>)}>> }

\* What a callable captures, with the references followed
Captured(hm, ha, f) ==
  [typeVarMap |-> hm[f.typeVarMap], values |-> ha[f.values],
   indexes |-> f.indexes]

\* curry: the callable capturing (_typeVarMap, _values, _indexes); born is
\* what these hold when curry is called
curry(hm, ha, _typeVarMap, _values, _indexes) ==
  [typeVarMap |-> _typeVarMap, values |-> _values, indexes |-> _indexes,
   born |-> [typeVarMap |-> hm[_typeVarMap], values |-> ha[_values],
             indexes |-> _indexes]]

\* def(name, constraints, expTypes, impl), from `var values` on: the first
\* callable, with an empty TypeVarMap and an array of n holes
InitDispatch ==
  /\ \E def \in Definitions, checkTypes \in BOOLEAN :
       /\ dDef = [checkTypes |-> checkTypes, env |-> DispatchEnv,
                  typeInfo |-> def[1], impl |-> def[2]]
       /\ dPool = def[3]
       /\ dArrays = <<newArray(Len(def[1].types) - 1)>>
       /\ dFns = <<curry(<<EmptyFn>>, <<newArray(Len(def[1].types) - 1)>>,
                         1, 1, range(0, Len(def[1].types) - 1))>>
  /\ dMaps = <<EmptyFn>>
  /\ dLast = NoCall
  /\ dHeld = NotHeld
  /\ IdleValidate /\ IdleInfer /\ IdleSolver /\ IdleGraph

\* The objects of store h user code can still reach after a call: those
\* there were before it, and the one at `ref` if the call made it and its
\* result is kept
Reachable(h, before, ref, kept) ==
  IF kept /\ ref > before THEN Append(SubSeq(h, 1, before), h[ref])
  ELSE SubSeq(h, 1, before)

\* The reference to object `ref` among the reachable ones
Moved(before, ref) == IF ref > before THEN before + 1 ELSE ref

\* What user code sees of a call's result
Seen(r) ==
  [kind |-> r.kind, value |-> r.value, err |-> r.err, implArgs |-> r.implArgs,
   checked |-> r.checked, invoked |-> r.invoked,
   box |-> IF r.box = 0 THEN EmptyFn ELSE r.maps[r.box],
   fn |-> IF r.kind = "callable"
            THEN [typeVarMap |-> r.maps[r.typeVarMap],
                  values |-> r.arrays[r.values], indexes |-> r.indexes]
            ELSE NoCall.fn]

\* User code calls callable p with args; a callable it gets back it keeps
\* while it holds fewer than MaxFns, else drops
Call(p, args) ==
  /\ \E keep \in {Len(dFns) < MaxFns},
        r \in {curried(dDef, dMaps, dArrays, dFns[p].typeVarMap,
                        dFns[p].values, dFns[p].indexes, args)} :
       /\ dMaps' = Reachable(r.maps, Len(dMaps), r.typeVarMap,
                             keep /\ r.kind = "callable")
       /\ dArrays' = Reachable(r.arrays, Len(dArrays), r.values,
                               keep /\ r.kind = "callable")
       /\ dFns' = IF keep /\ r.kind = "callable"
                    THEN Append(dFns,
                           curry(dMaps', dArrays',
                                 Moved(Len(dMaps), r.typeVarMap),
                                 Moved(Len(dArrays), r.values), r.indexes))
                    ELSE dFns
       /\ dLast' = [callee |-> p, args |-> args] @@ Seen(r)
       /\ dHeld' = IF /\ ~dHeld.held
                      /\ r.kind = "value" /\ HasOwn(r.value, "index")
                     THEN [NotHeld EXCEPT !.held = TRUE, !.fn = r.value,
                                          !.box = r.maps[r.box]]
                     ELSE dHeld
  /\ UNCHANGED <<dDef, dPool, validateVars, inferVars, solverVars, graphVars>>

\* User code applies, to one argument, the wrapped function a call returned
\* to it: the wrapper runs on the box of the call that made it
Invoke(value) ==
  /\ dHeld.held /\ dHeld.invocations < MaxInvocations
  /\ \E o \in {wrapped(dDef, Outcome(<<dHeld.box>>, 1, NoError, Undefined,
                                      <<>>, <<>>),
                         Prop(dHeld.fn, "index").prim, Prop(dHeld.fn, "f"),
                         <<value>>)} :
       dHeld' = [dHeld EXCEPT !.box = o.maps[o.box], !.invocations = @ + 1,
                              !.err = o.err]
  /\ UNCHANGED <<dDef, dPool, dMaps, dArrays, dFns, dLast, validateVars,
                 inferVars, solverVars, graphVars>>

\* The argument lists for a callable with `open` open indexes: up to `open`
\* values or placeholders, or one value more than that
ArgLists(open) ==
  UNION {[1..k -> dPool \cup {Placeholder}] : k \in 0..open}
    \cup [1..(open + 1) -> dPool]

NextDispatch ==
  \/ \E p \in 1..Len(dFns) :
       \E args \in ArgLists(Len(dFns[p].indexes)) : Call(p, args)
  \/ \E value \in {Num(1), Str(1)} : Invoke(value)

SpecDispatch == InitDispatch /\ [][NextDispatch]_vars

-----------------------------------------------------------------------------
(* The definition harness: def called on signatures of every length *)

MaxTypes == 11

\* The RangeError with the given message
RangeError(message) == [kind |-> "RangeError", message |-> message]

\* def(name, constraints, expTypes, impl) as called with four arguments of
\* which constraints ({}), expTypes (an array of types) and impl (a
\* function) are of the types def declares for them.  With checkTypes the
\* arguments are validated first; then `new Array(expTypes.length - 1)`,
\* which throws a RangeError for a negative length; then the test of
\* values.length.  What def throws, or NoError when it returns curry(..)
def(checkTypes, name, expTypes) ==
  LET checked(r) ==
        IF ~r.isRight THEN r.err
        ELSE IF Len(expTypes) - 1 < 0
          THEN RangeError("Invalid array length")
        ELSE IF Len(newArray(Len(expTypes) - 1)) > 9
          THEN RangeError("def cannot define a function with arity greater than nine")
        ELSE NoError
  IN checked(IF checkTypes
               THEN satisfactoryTypes(<<EmptyFn>>, DefaultEnv,
                      TypeInfo("def", EmptyFn, <<TString>>), 1, TString, 0,
                      <<>>, <<name>>)
               ELSE SRight(<<EmptyFn>>, 1, <<>>))

\* The types a signature of the harness repeats
DefTypes == {TNumber, TString, a}

InitDef ==
  IdleValidate /\ IdleInfer /\ IdleSolver /\ IdleDispatch /\ IdleGraph

\* User code calls def (made by $.create with checkTypes and DispatchEnv)
\* on a name and a signature of n types; dLast tells what came of it, and
\* the callable returned is the one user code holds
Def(checkTypes, name, expTypes) ==
  /\ \E e \in {def(checkTypes, name, expTypes)} :
       /\ dLast' = [NoCall EXCEPT
                      !.kind = IF e.kind = "none" THEN "callable" ELSE "raised",
                      !.err = e,
                      !.fn = IF e.kind = "none"
                               THEN [typeVarMap |-> EmptyFn,
                                     values |-> newArray(Len(expTypes) - 1),
                                     indexes |-> range(0, Len(expTypes) - 1)]
                               ELSE NoCall.fn]
       /\ dArrays' = IF e.kind = "none"
                       THEN <<newArray(Len(expTypes) - 1)>> ELSE <<>>
       /\ dMaps' = IF e.kind = "none" THEN <<EmptyFn>> ELSE <<>>
       /\ dFns' = IF e.kind = "none"
                    THEN <<curry(<<EmptyFn>>,
                                 <<newArray(Len(expTypes) - 1)>>, 1, 1,
                                 range(0, Len(expTypes) - 1))>>
                    ELSE <<>>
  /\ dDef' = [checkTypes |-> checkTypes, env |-> DispatchEnv,
              typeInfo |-> TypeInfo(name, EmptyFn, expTypes),
              impl |-> Impl("const", 0, Num(1))]
  /\ dPool' = {}
  /\ UNCHANGED <<dHeld, validateVars, inferVars, solverVars, graphVars>>

NextDef ==
  \E checkTypes \in BOOLEAN, name \in {Str(1), Num(1)},
     n \in 0..MaxTypes, t \in DefTypes :
    Def(checkTypes, name, [i \in 1..n |-> t])

SpecDef == InitDef /\ [][NextDef]_vars

-----------------------------------------------------------------------------
(* Inference on a value graph.                                             *)
(*                                                                         *)
(* The values are Arrays with identity: gObjects[n] holds the elements of  *)
(* Array object n, an element is a Number or a reference to an object, and *)
(* an object may be reached from itself.  _determineActualTypes is run one *)
(* step at a time; gStack holds the frames of its recursion, a frame being *)
(* one activation of `recur`:                                              *)
(*   acc, values   the accumulator and the values left of                  *)
(*                 Z.reduce(refine, types, values),                        *)
(*   seen          the frame's `seen`, seen1 the seen$ of the refine in    *)
(*                 progress,                                               *)
(*   ti, out       the position of Z.chain in acc and what it has produced,*)
(*   r1            the candidates for $1 of a binary type, once known,     *)
(*   pc            "empty" (values was empty), "value" (between two        *)
(*                 refines), "type" (inside Z.chain), "first" / "last" (a  *)
(*                 recursive call for $1 / for the last child is running), *)
(*                 "second" (a binary type whose $1 is settled).           *)

MaxObjects == 2

\* The stack never needs more frames than there are objects, plus one
MaxDepth == MaxObjects + 2

Ref(n) == Val("Ref", n, <<>>, <<>>)

\* typeof value === 'object' && value != null || typeof value === 'function'
isObject(value) == value.tag = "Ref"

\* The Array a reference stands for (with references for elements)
Deref(objects, value) ==
  IF isObject(value) THEN Arr(objects[value.prim]) ELSE value

\* A faulty check: no object is ever recognised as seen
indexOfNever(seen, value) == -1

\* seen.indexOf(value): objects are compared by identity
indexOf(seen, value) ==
  IF \E i \in 1..Len(seen) : seen[i] = value
    THEN (CHOOSE i \in 1..Len(seen) :
            seen[i] = value /\ \A j \in 1..(i - 1) : seen[j] # value) - 1
    ELSE -1

GraphEnv == <<TArray(Unknown), TNumber, TPair(Unknown, Unknown)>>

\* An activation of recur(loose, env, types, seen, values)
Frame(types, seen, values) ==
  [pc |-> IF isEmpty(values) THEN "empty" ELSE "value",
   acc |-> types, seen |-> seen, values |-> values,
   seen1 |-> <<>>, ti |-> 0, out |-> <<>>, r1 |-> <<>>]

Top == gStack[Len(gStack)]

SetTop(frame) == [gStack EXCEPT ![Len(gStack)] = frame]

\* The value whose refine is next or in progress, and the type Z.chain is at
TopValue == Head(Top.values)

TopType == Top.acc[Top.ti]

\* The caller's frame once a recursive call has returned `types`
Resume(frame, types) ==
  LET t == frame.acc[frame.ti]
  IN IF t.type = UNARY
       THEN [frame EXCEPT !.out = @ \o lift(t, types), !.ti = @ + 1,
                          !.pc = "type"]
     ELSE IF frame.pc = "first"
       THEN [frame EXCEPT !.r1 = types, !.pc = "second"]
     ELSE [frame EXCEPT !.out = @ \o xprod(t, frame.r1, types), !.ti = @ + 1,
                        !.pc = "type"]

\* The elements an Array holds: none, a Number, or one or two objects
Elements ==
  LET objects == {Ref(n) : n \in 1..MaxObjects}
  IN {<<>>, <<Num(1)>>} \cup {<<x>> : x \in objects}
       \cup {<<x, y>> : x \in objects, y \in objects}

\* determineActualTypesStrict / Loose (env, env, [object 1]) begins
InitGraph ==
  /\ gObjects \in [1..MaxObjects -> Elements]
  /\ gLoose \in BOOLEAN
  /\ gStack = <<Frame(GraphEnv, <<>>, <<Ref(1)>>)>>
  /\ gOut = NoInference
  /\ IdleValidate /\ IdleInfer /\ IdleSolver /\ IdleDispatch

\* recur returns: [$.Unknown] for no values, else the reduced types (or
\* [Inconsistent], when loose and none is left)
Return ==
  /\ gStack # <<>>
  /\ Top.pc = "empty" \/ (Top.pc = "value" /\ Top.values = <<>>)
  /\ \E types \in {IF Top.pc = "empty" THEN <<Unknown>>
                    ELSE or(Top.acc, IF gLoose THEN <<Inconsistent>> ELSE <<>>)} :
       IF Len(gStack) = 1
         THEN /\ gStack' = <<>>
              /\ gOut' = [gOut EXCEPT !.done = TRUE,
                                       !.types = rejectInconsistent(types)]
         ELSE /\ gStack' = Append(SubSeq(gStack, 1, Len(gStack) - 2),
                                   Resume(gStack[Len(gStack) - 1], types))
              /\ UNCHANGED gOut
  /\ UNCHANGED <<gObjects, gLoose, validateVars, inferVars, solverVars,
                 dispatchVars>>

\* refine meets an object that is among the seen ones: it returns []
Abort ==
  /\ gStack # <<>>
  /\ Top.pc = "value" /\ Top.values # <<>>
  /\ isObject(TopValue) /\ indexOf(Top.seen, TopValue) >= 0
  /\ gStack' = SetTop([Top EXCEPT !.acc = <<>>, !.values = Tail(@)])
  /\ gOut' = [gOut EXCEPT !.aborted = TRUE]
  /\ UNCHANGED <<gObjects, gLoose, validateVars, inferVars, solverVars,
                 dispatchVars>>

\* refine on another value: seen$ is set and Z.chain over the types begins
Visit ==
  /\ gStack # <<>>
  /\ Top.pc = "value" /\ Top.values # <<>>
  /\ ~(isObject(TopValue) /\ indexOf(Top.seen, TopValue) >= 0)
  /\ gStack' = SetTop([Top EXCEPT
                         !.seen1 = IF isObject(TopValue)
                                     THEN Append(Top.seen, TopValue)
                                     ELSE Top.seen,
                         !.ti = 1, !.out = <<>>, !.pc = "type"])
  /\ UNCHANGED <<gObjects, gLoose, gOut, validateVars, inferVars, solverVars,
                 dispatchVars>>

\* Z.chain at a type that needs no recursive call: [] for Nullable and for
\* a type whose _test rejects the value, [t] for a type that is neither
\* unary nor binary, and for a binary type a child that is not Unknown
Keep ==
  /\ gStack # <<>>
  /\ \/ /\ Top.pc = "type" /\ Top.ti <= Len(Top.acc)
        /\ \/ TopType.name = "sanctuary-def/Nullable"
           \/ ~_test(TopType, Deref(gObjects, TopValue))
           \/ TopType.type \notin {UNARY, BINARY}
           \/ TopType.type = BINARY /\ Child(TopType, "$1").type # UNKNOWN
     \/ Top.pc = "second" /\ Child(TopType, "$2").type # UNKNOWN
  /\ gStack' = SetTop(
       IF Top.pc = "second"
         THEN [Top EXCEPT !.out = @ \o xprod(TopType, Top.r1,
                                             <<Child(TopType, "$2")>>),
                          !.ti = @ + 1, !.pc = "type"]
       ELSE IF \/ TopType.name = "sanctuary-def/Nullable"
               \/ ~_test(TopType, Deref(gObjects, TopValue))
         THEN [Top EXCEPT !.ti = @ + 1]
       ELSE IF TopType.type = BINARY
         THEN [Top EXCEPT !.r1 = <<Child(TopType, "$1")>>, !.pc = "second"]
       ELSE [Top EXCEPT !.out = Append(@, TopType), !.ti = @ + 1])
  /\ UNCHANGED <<gObjects, gLoose, gOut, validateVars, inferVars, solverVars,
                 dispatchVars>>

\* Z.chain at a unary type, or at a binary type with an Unknown child:
\* recur(loose, env, env, seen$, extractor(value))
Descend ==
  /\ gStack # <<>> /\ Len(gStack) < MaxDepth
  /\ \E k \in {"$1", "$2"} :
       /\ \/ /\ k = "$1"
              /\ Top.pc = "type" /\ Top.ti <= Len(Top.acc)
              /\ TopType.name # "sanctuary-def/Nullable"
              /\ _test(TopType, Deref(gObjects, TopValue))
              /\ \/ TopType.type = UNARY
                 \/ TopType.type = BINARY /\ Child(TopType, "$1").type = UNKNOWN
          \/ /\ k = "$2"
              /\ Top.pc = "second" /\ Child(TopType, "$2").type = UNKNOWN
       /\ gStack' =
            Append(SetTop([Top EXCEPT
                             !.pc = IF TopType.type = BINARY /\ k = "$1"
                                      THEN "first" ELSE "last"]),
                   Frame(GraphEnv, Top.seen1,
                         extractor(TopType, k, Deref(gObjects, TopValue))))
  /\ UNCHANGED <<gObjects, gLoose, gOut, validateVars, inferVars, solverVars,
                 dispatchVars>>

\* Z.chain is through: refine returns and Z.reduce moves to the next value
NextValue ==
  /\ gStack # <<>>
  /\ Top.pc = "type" /\ Top.ti > Len(Top.acc)
  /\ gStack' = SetTop([Top EXCEPT !.acc = Top.out, !.values = Tail(@),
                                   !.pc = "value"])
  /\ UNCHANGED <<gObjects, gLoose, gOut, validateVars, inferVars, solverVars,
                 dispatchVars>>

NextGraph ==
  \/ Return
  \/ Abort
  \/ Visit
  \/ Keep
  \/ Descend
  \/ NextValue

SpecGraph == InitGraph /\ [][NextGraph]_vars

\* The steps of one call are taken one after the other until it returns
SpecGraphFair == SpecGraph /\ WF_vars(NextGraph)

-----------------------------------------------------------------------------
(* Properties of inference on a value graph *)

\* refine is about to start on an object that is one of its own ancestors
AtAncestor ==
  /\ gStack # <<>>
  /\ Top.pc = "value" /\ Top.values # <<>>
  /\ isObject(TopValue) /\ TopValue \in Range(Top.seen)

\* C23: candidate-type inference on a value graph returns, also when an
\* object is reachable from itself; and when refine meets an object that is
\* among its own ancestors it makes no recursive call (no frame is pushed)
\* and leaves the empty candidate list.
C23_InferenceTerminates ==
  /\ <>(gOut.done)
  /\ [][AtAncestor =>
          /\ Len(gStack') = Len(gStack)
          /\ gStack'[Len(gStack)].acc = <<>>]_vars

\* Inference has returned for an Array that holds itself, after refine met
\* the Array among its ancestors
C23_Witness ==
  /\ gOut.done /\ gOut.aborted
  /\ Ref(1) \in Range(gObjects[1])

\* Inference has returned for two Arrays each of which holds the other
C23_WitnessMutual ==
  /\ gOut.done /\ gOut.aborted
  /\ gObjects[1] = <<Ref(2)>> /\ gObjects[2] = <<Ref(1)>>

\* No call needs more frames than there are objects, plus one: the bound
\* on the stack never stops a step
C23_DepthWithinObjects == Len(gStack) <= MaxObjects + 1

-----------------------------------------------------------------------------
(* Properties of the solver's TypeVarMaps *)

\* The order of nested loops: outer position, then inner position
Before(p, q) == p[1] < q[1] \/ (p[1] = q[1] /\ p[2] < q[2])

\* The values recorded for an entry, over all its paths
Recorded(entry) ==
  UNION {Range(entry.valuesByPath[key]) : key \in DOMAIN entry.valuesByPath}

\* Every value recorded in the entry is a member of one of its candidates
Covered(entry) ==
  \A v \in Recorded(entry) :
    \E i \in 1..Len(entry.types) : validate(entry.types[i], v).isRight

\* C1: in the TypeVarMap a successful solver step returns, every value
\* recorded in a variable's valuesByPath is a member (per validate) of at
\* least one of that variable's candidate types.
C1_RecordedValuesAreMembers ==
  (sLast.op = "satisfactoryTypes" /\ sLast.isRight) =>
    \A name \in DOMAIN sHeap[sLast.output] : Covered(sHeap[sLast.output][name])

\* A successful step has returned a map in which a variable has an empty
\* container and a nested container on record, under a refined candidate
C1_Witness ==
  /\ sLast.op = "satisfactoryTypes" /\ sLast.isRight
  /\ \E name \in DOMAIN sHeap[sLast.output] :
       LET entry == sHeap[sLast.output][name]
       IN /\ Arr(<<>>) \in Recorded(entry)
          /\ Arr(<<Arr(<<>>), Arr(<<Num(1)>>)>>) \in Recorded(entry)
          /\ entry.types # <<>>

\* C8: updateTypeVarMap leaves the TypeVarMap it is given as it was (every
\* entry keeps its candidates and its valuesByPath) and returns a distinct
\* map.
C8_InputMapUntouched ==
  sLast.op = "updateTypeVarMap" =>
    /\ sHeap[sLast.input] = sLast.before
    /\ sLast.output # sLast.input

\* updateTypeVarMap was given a map that already had values on record for
\* a, and recorded one more in its result
C8_Witness ==
  /\ sLast.op = "updateTypeVarMap"
  /\ "a" \in DOMAIN sLast.before
  /\ Recorded(sLast.before["a"]) # {}
  /\ sHeap[sLast.output] # sLast.before

\* The step's expected type, and its value
StepType == sInfo.types[sLast.index + 1]

StepValue == sLast.values[1]

\* The expected type is a type variable, or a unary type around one: the
\* step meets one occurrence of a type variable
OneOccurrence ==
  \/ StepType.type = VARIABLE_
  \/ StepType.type = UNARY /\ StepType.types[1].type = VARIABLE_

OccurrenceVar ==
  IF StepType.type = VARIABLE_ THEN StepType ELSE StepType.types[1]

OccurrencePath == IF StepType.type = VARIABLE_ THEN <<>> ELSE <<"$1">>

\* The values observed at the occurrence
OccurrenceValues ==
  IF StepType.type = VARIABLE_ THEN sLast.values
  ELSE extractAll(StepType, "$1", sLast.values)

\* The variable's candidates after the refinement by the observed values
RefinedCandidates ==
  updatedContent(sEnv, sLast.before, OccurrenceVar, sLast.index,
                 OccurrencePath, OccurrenceValues)[OccurrenceVar.name].types

TypeVarViolation ==
  ~sLast.isRight /\ sLast.err.kind = "Type-variable constraint violation"

\* The TypeClasses the signature lists for the variable of the occurrence
OccurrenceClasses ==
  IF OccurrenceVar.name \in DOMAIN sInfo.constraints
    THEN sInfo.constraints[OccurrenceVar.name] ELSE <<>>

\* The (value, class) positions at which an observed value fails a class
ClassFailures ==
  {pos \in (1..Len(OccurrenceValues)) \X (1..Len(OccurrenceClasses)) :
     ~TypeClassTest(OccurrenceClasses[pos[2]], OccurrenceValues[pos[1]])}

\* C11: a solver step at an occurrence of a type variable returns a
\* type-variable constraint violation exactly when the variable's candidate
\* list is empty after refinement and a value was observed there; with no
\* value observed the step succeeds.
C11_ViolationIffNoCandidate ==
  (sLast.op = "satisfactoryTypes" /\ OneOccurrence
     /\ _test(StepType, StepValue) /\ ClassFailures = {}) =>
    /\ TypeVarViolation <=>
         (isEmpty(RefinedCandidates) /\ ~isEmpty(OccurrenceValues))
    /\ isEmpty(OccurrenceValues) => sLast.isRight

\* A second occurrence of a received a String after a Number was on record
\* for it, and the step returned the violation
C11_Witness ==
  /\ sLast.op = "satisfactoryTypes" /\ OneOccurrence
  /\ TypeVarViolation
  /\ "a" \in DOMAIN sLast.before
  /\ Num(1) \in Recorded(sLast.before["a"])
  /\ Str(1) \in Range(OccurrenceValues)

\* A step with no value observed succeeded although a has no candidate
C11_WitnessNoValue ==
  /\ sLast.op = "satisfactoryTypes" /\ OneOccurrence
  /\ isEmpty(OccurrenceValues) /\ isEmpty(RefinedCandidates)
  /\ sLast.isRight

C20_StructuralFailureFirst ==
  sLast.op = "satisfactoryTypes" =>
    \E v \in {validate(StepType, StepValue)} :
      ~v.isRight =>
        /\ ~sLast.isRight
        /\ sLast.err = invalidValue(sEnv, sInfo, sLast.index, v.propPath,
                                    v.value)

\* A pair whose second part is not a String was rejected for Pair a String
\* with the path of the second part, although its first part, a String,
\* leaves a (an Array so far) without a candidate
C20_Witness ==
  /\ sLast.op = "satisfactoryTypes"
  /\ StepType = TPair(a, TString)
  /\ "a" \in DOMAIN sLast.before
  /\ Len(StepValue.items) = 2
  /\ ~satisfactoryTypes(<<sLast.before>>, sEnv, TypeInfo("c", EmptyFn, sInfo.types),
                        1, a, sLast.index, <<"$1">>,
                        <<StepValue.items[1]>>).isRight
  /\ sLast.err.kind = "Invalid value"
  /\ sLast.err.propPath = <<"$2">>

\* The solver on the slots of the step's expected type from slot i on, one
\* after the other, each with the map content the slot before it returned:
\* the verdict, the error of the slot that failed, the map content reached
RECURSIVE Threaded(_, _)
Threaded(content, i) ==
  IF i > Len(StepType.keys)
    THEN [isRight |-> TRUE, err |-> NoError, content |-> content]
  ELSE LET next(r) ==
             IF ~r.isRight
               THEN [isRight |-> FALSE, err |-> r.err, content |-> content]
               ELSE Threaded(r.heap[r.typeVarMap], i + 1)
       IN next(satisfactoryTypes(<<content>>, sEnv, sInfo, 1,
                 StepType.types[i], sLast.index, <<StepType.keys[i]>>,
                 extractAll(StepType, StepType.keys[i], sLast.values)))

\* C21: for a Binary and for a Record expected type, on a value validate
\* accepts, the step is the solver on the slots in key order ($1 then $2;
\* the sorted field names), each slot under the map the slot before it
\* returned: it fails with the error of the first slot that fails, else it
\* returns the map of the last slot.
C21_SlotsThreaded ==
  (sLast.op = "satisfactoryTypes" /\ StepType.type \in {BINARY, RECORD}
     /\ _test(StepType, StepValue)) =>
    \E t \in {Threaded(sLast.before, 1)} :
      /\ sLast.isRight = t.isRight
      /\ sLast.err = t.err
      /\ t.isRight => sHeap[sLast.output] = t.content

\* A record {x: 1, y: 's'} was rejected for {x: a, y: a} at the path of y,
\* with the Number of x on record there
C21_Witness ==
  /\ sLast.op = "satisfactoryTypes" /\ StepType.type = RECORD
  /\ StepValue = Obj(<<"x", "y">>, <<Num(1), Str(1)>>)
  /\ TypeVarViolation
  /\ sLast.err.propPath = <<"y">>
  /\ \E key \in DOMAIN sLast.err.valuesByPath :
       key.propPath = <<"x">> /\ sLast.err.valuesByPath[key] = <<Num(1)>>

\* A pair of a String and a Number was rejected for Pair a a at $2
C21_WitnessPair ==
  /\ sLast.op = "satisfactoryTypes" /\ StepType = TPair(a, a)
  /\ sLast.before = EmptyFn
  /\ TypeVarViolation
  /\ sLast.err.propPath = <<"$2">>

\* The step's expected type is a unary type variable around a type that is
\* not a type variable
UnaryVariableStep ==
  /\ sLast.op = "satisfactoryTypes"
  /\ StepType.type = VARIABLE_ /\ Len(StepType.keys) = 1
  /\ StepType.types[1].type # VARIABLE_

\* The candidates of the step's variable after the refinement by the value
SurvivingCandidates ==
  updatedContent(sEnv, sLast.before, StepType, sLast.index, <<>>,
                 sLast.values)[StepType.name].types

\* The (candidate, value) pairs at which a value extracted by the last-keyed
\* extractor of a surviving candidate with keys is not a member of the
\* declared inner type
InnerFailures ==
  LET failures(candidates) ==
        UNION {{<<i, v>> :
                  v \in {w \in Range(extractor(candidates[i],
                                               Last(candidates[i].keys),
                                               StepValue)) :
                           ~test(sEnv, StepType.types[1], w)}} :
               i \in {j \in 1..Len(candidates) : candidates[j].keys # <<>>}}
  IN failures(SurvivingCandidates)

\* C22: a solver step for a unary type variable f X with X not a type
\* variable, once a candidate for f survives, succeeds exactly when every
\* value extracted by the last-keyed extractor of every surviving candidate
\* with keys is a member of X; otherwise it returns an invalid-value
\* diagnostic for such a value at the path of that candidate's last key.
C22_InnerMembership ==
  (UnaryVariableStep /\ SurvivingCandidates # <<>>) =>
    /\ sLast.isRight <=> InnerFailures = {}
    /\ ~sLast.isRight =>
         /\ sLast.err.kind = "Invalid value"
         /\ \E f \in InnerFailures :
              /\ sLast.err.propPath = <<Last(SurvivingCandidates[f[1]].keys)>>
              /\ sLast.err.value = f[2]

\* [[], [1]] was rejected for f (Array String): f's candidate Array yields
\* [] and then [1], the second is not an Array String, and the diagnostic
\* is at $1
C22_Witness ==
  /\ UnaryVariableStep /\ StepType.types[1] = TArray(TString)
  /\ StepValue = Arr(<<Arr(<<>>), Arr(<<Num(1)>>)>>)
  /\ ~sLast.isRight
  /\ sLast.err.kind = "Invalid value"
  /\ sLast.err.propPath = <<"$1">>
  /\ sLast.err.value = Arr(<<Num(1)>>)

\* ['s', 1] was accepted for f Number: the only candidate left for f is
\* Pair, whose last-keyed extractor yields the Number
C22_WitnessAccepted ==
  /\ UnaryVariableStep /\ StepType.types[1] = TNumber
  /\ StepValue = Arr(<<Str(1), Num(1)>>)
  /\ sLast.isRight
  /\ Len(SurvivingCandidates) = 1 /\ SurvivingCandidates[1].name = "sanctuary-def/Pair"

\* The position of the violation, and the values by position the violation
\* was built from
ViolationKey == PathKey(sLast.err.index, sLast.err.propPath)

ViolationValues == sLast.err.valuesByPath

\* Every position on record is a position of the signature
RecordedInSignature ==
  \A k \in DOMAIN ViolationValues :
    /\ k.index < Len(sInfo.types)
    /\ \E pos \in positionsOf(sInfo.types[k.index + 1], k.index, <<>>) :
         pos.key = k

\* The positions other than X that have values on record with which the
\* values at X have no common type
Incompatible ==
  {k \in DOMAIN ViolationValues \ {ViolationKey} :
     /\ ViolationValues[k] # <<>>
     /\ determineActualTypesStrict(sEnv, sEnv,
          ViolationValues[ViolationKey] \o ViolationValues[k]) = <<>>}

\* C24: in a type-variable constraint violation at position X, the
\* positions underlined in the signature, and the positions listed under a
\* number, are X and the other positions that have values on record whose
\* values together with those at X admit no type of the environment.
C24_HighlightedPositions ==
  (sLast.op = "satisfactoryTypes" /\ TypeVarViolation /\ RecordedInSignature) =>
    /\ sLast.err.carets = {ViolationKey} \cup Incompatible
    /\ sLast.err.listed = {ViolationKey} \cup Incompatible

\* A violation at field x of a record, a holding [[], [1]] there: $2 of
\* the pair before it, which holds [1], is underlined; $1, which holds [],
\* is not
C24_Witness ==
  /\ sLast.op = "satisfactoryTypes" /\ TypeVarViolation /\ RecordedInSignature
  /\ ViolationKey = PathKey(1, <<"x">>)
  /\ sLast.err.carets = {ViolationKey, PathKey(0, <<"$2">>)}
  /\ PathKey(0, <<"$1">>) \in DOMAIN ViolationValues
  /\ ViolationValues[PathKey(0, <<"$1">>)] = <<Arr(<<>>)>>

\* A violation whose values at X have no common type by themselves, with a
\* position on record that holds no value: the position gets no number
C24_WitnessNoValue ==
  /\ sLast.op = "satisfactoryTypes" /\ TypeVarViolation /\ RecordedInSignature
  /\ determineActualTypesStrict(sEnv, sEnv, ViolationValues[ViolationKey]) = <<>>
  /\ \E k \in DOMAIN ViolationValues :
       ViolationValues[k] = <<>> /\ k \notin sLast.err.listed

\* The step is at a plain type variable all of whose values on record were
\* observed at plain occurrences
PlainStep ==
  /\ sLast.op = "satisfactoryTypes"
  /\ StepType.type = VARIABLE_ /\ StepType.keys = <<>>
  /\ OccurrenceClasses = <<>>
  /\ StepType.name \in DOMAIN sLast.before =>
       \A key \in DOMAIN sLast.before[StepType.name].valuesByPath :
         key.propPath = <<>>

\* The values on record for the variable once the step has observed its
\* value (on a violation, the values the violation reports)
ObservedByKey ==
  IF sLast.isRight THEN sHeap[sLast.output][StepType.name].valuesByPath
  ELSE sLast.err.valuesByPath

RECURSIVE Concat(_, _)
Concat(valuesByPath, keys) ==
  IF keys = {} THEN <<>>
  ELSE LET key == CHOOSE k \in keys : TRUE
       IN valuesByPath[key] \o Concat(valuesByPath, keys \ {key})

Observations == Concat(ObservedByKey, DOMAIN ObservedByKey)

\* Whether the variable keeps a candidate throughout when the values are
\* observed one by one from the content of a TypeVarMap
RECURSIVE Unifies(_, _)
Unifies(content, values) ==
  IF values = <<>> THEN TRUE
  ELSE LET next(updated) ==
             /\ ~isEmpty(updated[StepType.name].types)
             /\ Unifies(updated, Tail(values))
       IN next(updatedContent(sEnv, content, StepType, 0, <<>>,
                              <<Head(values)>>))

\* C27: whether a plain type variable keeps a candidate does not depend on
\* the order of the observations: the values on record for it, observed in
\* any order from the empty TypeVarMap, are accepted throughout if the step
\* succeeded and lead to a violation if it did not.
C27_OrderIndependent ==
  PlainStep =>
    \A p \in Permutations(1..Len(Observations)) :
      Unifies(EmptyFn, [i \in 1..Len(Observations) |-> Observations[p[i]]])
        = sLast.isRight

\* The step's expected type is a unary type variable around a type
\* variable (f a)
VariableInVariableStep ==
  /\ sLast.op = "satisfactoryTypes"
  /\ StepType.type = VARIABLE_ /\ Len(StepType.keys) = 1
  /\ StepType.types[1].type = VARIABLE_

\* C28: a successful solver step for f a, with f and a type variables,
\* returns a map that differs from the one it was given in the entry of f
\* only: no entry is made for a, and an entry a has is left as it was.
C28_OnlyContainerRecorded ==
  (VariableInVariableStep /\ sLast.isRight) =>
    /\ DOMAIN sHeap[sLast.output] = DOMAIN sLast.before \cup {StepType.name}
    /\ \A name \in DOMAIN sLast.before \ {StepType.name} :
         sHeap[sLast.output][name] = sLast.before[name]

\* [[], [1]] was accepted for f a after the Number 1 was observed for a:
\* the Arrays inside it were not held against a
C28_Witness ==
  /\ VariableInVariableStep /\ sLast.isRight
  /\ StepValue = Arr(<<Arr(<<>>), Arr(<<Num(1)>>)>>)
  /\ "a" \in DOMAIN sLast.before
  /\ Recorded(sLast.before["a"]) = {Num(1)}
  /\ Recorded(sHeap[sLast.output]["a"]) = {Num(1)}
  /\ Recorded(sHeap[sLast.output]["f"]) # {}

\* The step's expected type is a binary type variable around two types
\* that are not type variables
BinaryVariableStep ==
  /\ sLast.op = "satisfactoryTypes"
  /\ StepType.type = VARIABLE_ /\ Len(StepType.keys) = 2
  /\ StepType.types[1].type # VARIABLE_
  /\ StepType.types[2].type # VARIABLE_

\* The step again, from the map it was given, with second in the place of
\* the expected type's second child
WithSecondChild(second) ==
  satisfactoryTypes(<<sLast.before>>, sEnv, sInfo, 1,
                    BinaryTypeVariable(StepType.name, StepType.types[1], second),
                    sLast.index, <<>>, sLast.values)

\* C29: a solver step for p A B, p a type variable and A, B not, once a
\* candidate for p survives, succeeds exactly when every value extracted by
\* the last-keyed extractor of every surviving candidate is a member of A;
\* B is not consulted, and the step comes to the same with any other type
\* in the place of B.
C29_SecondChildIgnored ==
  (BinaryVariableStep /\ SurvivingCandidates # <<>>) =>
    /\ sLast.isRight <=> InnerFailures = {}
    /\ \A second \in {TNumber, TString, TArray(TNumber)} :
         \E r \in {WithSecondChild(second)} :
           r.isRight = sLast.isRight /\ r.err = sLast.err

\* The Pair ('s', 1) was accepted for p Number String: the candidate Pair
\* yields 1 from $2, a Number, which is not a member of the second child
C29_Witness ==
  /\ BinaryVariableStep /\ sLast.isRight
  /\ StepType.types = <<TNumber, TString>>
  /\ StepValue = Arr(<<Str(1), Num(1)>>)
  /\ ~test(sEnv, StepType.types[2], StepValue.items[2])

\* C12: every value the solver observes at an occurrence of a type variable
\* with listed TypeClasses must pass each of them, else the step returns a
\* type-class constraint violation (for the first failing value and class),
\* also when the value leaves the variable without a candidate: the classes
\* are tested before the candidates are refined.
C12_ClassesBeforeUnification ==
  (sLast.op = "satisfactoryTypes" /\ OneOccurrence
     /\ _test(StepType, StepValue)) =>
    IF ClassFailures = {}
      THEN sLast.err.kind # "Type-class constraint violation"
      ELSE /\ ~sLast.isRight
           /\ sLast.err.kind = "Type-class constraint violation"
           /\ \E pos \in ClassFailures :
                /\ \A q \in ClassFailures : q = pos \/ Before(pos, q)
                /\ sLast.err.value = OccurrenceValues[pos[1]]
                /\ sLast.err.typeClass = OccurrenceClasses[pos[2]]
                /\ sLast.err.index = sLast.index

\* A value nested in an argument, not the first one there, failed a class
\* and would also have left the variable without a candidate
C12_Witness ==
  /\ sLast.op = "satisfactoryTypes" /\ OneOccurrence
  /\ _test(StepType, StepValue)
  /\ StepType.type = UNARY
  /\ ClassFailures # {} /\ <<1, 1>> \notin ClassFailures
  /\ isEmpty(RefinedCandidates)
  /\ sLast.err.kind = "Type-class constraint violation"

-----------------------------------------------------------------------------
(* Properties of candidate-type inference *)

\* x is a member of one of the candidate types
Admits(types, x) == \E i \in 1..Len(types) : _test(types[i], x)

\* C2: observing one more value never widens what the candidates admit: a
\* value admitted by the candidates for vs ++ [v] (vs non-empty) is admitted
\* by the candidates for vs.
C2_InferenceMonotonic ==
  Len(iVals) >= 2 =>
    \A x \in Values : Admits(iOut, x) => Admits(iPrev, x)

\* A further value has narrowed a non-empty candidate list to a different
\* non-empty one
C2_Witness ==
  /\ Len(iVals) >= 2
  /\ iOut # <<>>
  /\ iOut # iPrev
  /\ \E x \in Values : Admits(iPrev, x) /\ ~Admits(iOut, x)

-----------------------------------------------------------------------------
(* Properties of validate *)

\* The (key, extracted value) positions of t on x, as pairs <<idx, idx2>>
Positions(t, x) ==
  {<<idx, idx2>> \in (1..Len(t.keys)) \X (1..4) :
     idx2 <= Len(extractor(t, t.keys[idx], x))}

\* validate of the sub-type at a position on the value extracted there
ChildResult(t, x, pos) ==
  validate(t.types[pos[1]], extractor(t, t.keys[pos[1]], x)[pos[2]])

Failing(t, x) == {pos \in Positions(t, x) : ~ChildResult(t, x, pos).isRight}

\* C4: T.validate(v) is Right exactly when T's recognizer accepts v and
\* every value extracted for every key validates against that key's
\* sub-type; a Left carries the first failing value in key order and
\* extraction order, its path the key prefixed to the sub-type's path.
C4_ValidateCharacterised ==
  /\ vRes.isRight <=> (test_(vT, vX) /\ Failing(vT, vX) = {})
  /\ (test_(vT, vX) /\ Failing(vT, vX) # {}) =>
       \E pos \in Failing(vT, vX) :
         /\ \A q \in Failing(vT, vX) : q = pos \/ Before(pos, q)
         /\ vRes = Left(ChildResult(vT, vX, pos).value,
                        <<vT.keys[pos[1]]>> \o ChildResult(vT, vX, pos).propPath)

\* validate returned a Left with a path for a value whose recogniser
\* accepts it and that fails under two different keys
C4_Witness ==
  /\ ~vRes.isRight
  /\ vRes.propPath # <<>>
  /\ test_(vT, vX)
  /\ \E p, q \in Failing(vT, vX) : p[1] # q[1]

\* t is a type variable or has one among its sub-types, at any depth
RECURSIVE ContainsVariable(_)
ContainsVariable(t) ==
  \/ t.type = VARIABLE_
  \/ \E i \in 1..Len(t.types) : ContainsVariable(t.types[i])

\* C16: for a type t with no type variable at any depth, $.test(env, t, x)
\* is t.validate(x).isRight whatever env is, so that two environments give
\* the same answer.
C16_TestIgnoresEnvironment ==
  (vTest.tested /\ ~ContainsVariable(vT)) => (vTest.result = vRes.isRight)

\* $.test with the empty environment accepted a value for a type with
\* sub-types and no type variable
C16_Witness ==
  /\ vTest.tested /\ ~ContainsVariable(vT)
  /\ vTest.env = <<>>
  /\ vT.types # <<>> /\ vX.items # <<>>
  /\ vTest.result

\* For the type variable a the environment decides: validate accepts the
\* value and $.test with the empty environment rejects it
C16_WitnessVariable ==
  /\ vTest.tested /\ ContainsVariable(vT)
  /\ vTest.env = <<>>
  /\ vRes.isRight /\ ~vTest.result

-----------------------------------------------------------------------------
(* Properties of dispatch *)

\* The callable the last call was made on, and what it captures
Callee == dFns[dLast.callee]

CalleeState == Captured(dMaps, dArrays, Callee)

Called == dLast.kind # "none"

Open == Len(Callee.indexes)

\* The (index, value) pairs the last call supplies, in argument order
Supplied ==
  SelectSeq([i \in 1..(IF Len(dLast.args) < Open THEN Len(dLast.args) ELSE Open)
               |-> <<Callee.indexes[i], dLast.args[i]>>],
            LAMBDA pair : ~isPlaceholder(pair[2]))

\* The solver run over (index, value) pairs one after the other from a
\* TypeVarMap: the map reached and, if a pair is rejected, the error
RECURSIVE Accumulate(_, _)
Accumulate(typeVarMap, pairs) ==
  IF pairs = <<>> THEN [ok |-> TRUE, typeVarMap |-> typeVarMap, err |-> NoError]
  ELSE LET next(r) ==
             IF ~r.isRight
               THEN [ok |-> FALSE, typeVarMap |-> typeVarMap, err |-> r.err]
               ELSE Accumulate(r.heap[r.typeVarMap], Tail(pairs))
       IN next(satisfactoryTypes(<<typeVarMap>>, dDef.env, dDef.typeInfo, 1,
                                 dDef.typeInfo.types[Head(pairs)[1] + 1],
                                 Head(pairs)[1], <<>>, <<Head(pairs)[2]>>))

Accepted == Accumulate(CalleeState.typeVarMap, Supplied)

\* The arguments in the positions the signature declares: the stored value
\* where the callee has one, else the argument supplied for that index
Positional ==
  [i \in 1..(Len(dDef.typeInfo.types) - 1) |->
     IF \E k \in 1..Open : Callee.indexes[k] = i - 1
       THEN Arg(dLast.args, (CHOOSE k \in 1..Open : Callee.indexes[k] = i - 1) - 1)
       ELSE CalleeState.values[i]]

\* The call fills every open index
Completing == Len(dLast.args) <= Open /\ Len(Supplied) = Open

WrongArity == dLast.kind = "raised" /\ dLast.err.kind = "Wrong arity"

TypeError == dLast.kind = "raised" /\ dLast.err.kind # "Wrong arity"

\* What a call of the definition itself with args comes to
Direct(args) ==
  Seen(curried(dDef, <<dFns[1].born.typeVarMap>>, <<dFns[1].born.values>>,
               1, 1, dFns[1].born.indexes, args))

\* C3: with checkTypes enabled, f(__, y)(x) and f(x, y) have the same
\* outcome: both return the same value or both raise a type error.  (The
\* callee is f(__, y) when it captures what the callable f(__, y) returns
\* captures.)
C3_PlaceholderSkipping ==
  \A y \in dPool :
    ( /\ Called /\ dDef.checkTypes
      /\ Len(dDef.typeInfo.types) = 3
      /\ Direct(<<Placeholder, y>>).kind = "callable"
      /\ Callee.born = Direct(<<Placeholder, y>>).fn
      /\ Len(dLast.args) = 1
      /\ ~isPlaceholder(dLast.args[1]) )
    => \E direct \in {Direct(<<dLast.args[1], y>>)} :
         \/ dLast.kind = "value" /\ direct.kind = "value"
              /\ dLast.value = direct.value
         \/ dLast.kind = "raised" /\ direct.kind = "raised"

\* C5 as stated: a call with no arguments, of any callable of any
\* signature, returns a callable with the callee's stored values, open
\* indexes and TypeVarMap, and does not invoke the implementation.
C5_NoArgumentsAnySignature ==
  (Called /\ dLast.args = <<>>) =>
    /\ dLast.kind = "callable"
    /\ dLast.fn = CalleeState
    /\ dLast.implArgs = <<>>

\* C5, amended: a call with no arguments of a callable that has an open
\* index (any callable of a signature with at least one parameter) returns
\* a callable with the callee's stored values, open indexes and TypeVarMap,
\* and does not invoke the implementation.
C5_NoArgumentsOpenIndex ==
  (Called /\ dLast.args = <<>> /\ Open > 0) =>
    /\ dLast.kind = "callable"
    /\ dLast.fn = CalleeState
    /\ dLast.implArgs = <<>>

\* A partial application that holds a checked value was called with no
\* arguments
C5_Witness ==
  /\ Called /\ dLast.args = <<>> /\ dDef.checkTypes
  /\ dLast.callee > 1
  /\ DOMAIN CalleeState.typeVarMap # {}
  /\ dLast.kind = "callable"

\* C6 as stated: for either value of checkTypes, more arguments than open
\* indexes raise a wrong-arity error without invoking the implementation,
\* and fewer return a callable.
C6_ArityEitherCheckTypes ==
  Called =>
    /\ Len(dLast.args) > Open => (WrongArity /\ dLast.implArgs = <<>>)
    /\ Len(dLast.args) < Open => dLast.kind = "callable"

\* C6, amended: with checkTypes enabled, more arguments than open indexes
\* raise a wrong-arity error without invoking the implementation; for
\* either value of checkTypes, fewer arguments return a callable, provided
\* that with checkTypes enabled the solver accepts each of them.
C6_ArityContract ==
  Called =>
    /\ (dDef.checkTypes /\ Len(dLast.args) > Open) =>
         (WrongArity /\ dLast.implArgs = <<>>)
    /\ (Len(dLast.args) < Open /\ (dDef.checkTypes => Accepted.ok)) =>
         dLast.kind = "callable"

\* A partial application was given more arguments than it has open indexes,
\* with checkTypes enabled
C6_Witness ==
  /\ Called /\ dDef.checkTypes
  /\ dLast.callee > 1
  /\ Len(dLast.args) > Open
  /\ WrongArity

\* C7: what a call of a callable comes to depends only on what the callable
\* captured when it was made (values, open indexes, TypeVarMap) and on the
\* arguments, whatever calls were made before.
C7_CallIsolation ==
  Called =>
    Seen(curried(dDef, <<Callee.born.typeVarMap>>, <<Callee.born.values>>,
                 1, 1, Callee.born.indexes, dLast.args))
      = [x \in {"kind", "value", "err", "implArgs", "checked", "invoked",
                "box", "fn"} |-> dLast[x]]

\* The definition was called to completion after a partial application was
\* made from it
C7_Witness ==
  /\ Called /\ dLast.callee = 1 /\ Len(dFns) > 1
  /\ dLast.kind = "value"
  /\ Len(dLast.args) = 2

\* C9: with checkTypes enabled, a call in which the solver rejects a
\* supplied argument raises that argument's type error, invokes no
\* implementation and returns no callable, also when indexes stay open.
C9_RejectedAtOnce ==
  (Called /\ dDef.checkTypes /\ Len(dLast.args) <= Open /\ ~Accepted.ok) =>
    /\ TypeError
    /\ dLast.err = Accepted.err
    /\ dLast.implArgs = <<>>
    /\ dLast.fn = NoCall.fn

\* An argument was rejected in a call that left an index open
C9_Witness ==
  /\ Called /\ dDef.checkTypes
  /\ Len(dLast.args) < Open
  /\ ~Accepted.ok
  /\ dLast.kind = "raised"

\* What the implementation comes to on the stored arguments under the
\* TypeVarMap the arguments led to
ImplOutcome ==
  apply(dDef, Outcome(<<Accepted.typeVarMap>>, 1, NoError, Undefined,
                      <<>>, <<>>),
        IF dDef.checkTypes THEN wrapFunctions(dDef.typeInfo, Positional)
        ELSE Positional)

\* C10: with checkTypes enabled, a call that fills the last open index
\* invokes the implementation once, with the arguments in declared order
\* (those of a Function type wrapped), and, the implementation returning,
\* returns its result if the solver accepts it for last(types) under the
\* TypeVarMap the arguments led to; else it raises a type error at index
\* types.length - 1.
C10_Completion ==
  (Called /\ dDef.checkTypes /\ Completing /\ Accepted.ok) =>
    /\ dLast.implArgs = <<wrapFunctions(dDef.typeInfo, Positional)>>
    /\ \E o \in {ImplOutcome} :
         o.err.kind = "none" =>
           \E r \in {satisfactoryTypes(<<Accepted.typeVarMap>>, dDef.env,
                        dDef.typeInfo, 1, Last(dDef.typeInfo.types),
                        Len(dDef.typeInfo.types) - 1, <<>>, <<o.value>>)} :
             IF r.isRight
               THEN dLast.kind = "value" /\ dLast.value = o.value
               ELSE TypeError
                      /\ dLast.err.index = Len(dDef.typeInfo.types) - 1

\* A partial application that holds the second argument was completed and
\* the result returned
C10_Witness ==
  /\ Called /\ dDef.checkTypes /\ Completing /\ Accepted.ok
  /\ dLast.callee > 1
  /\ Callee.indexes = <<0>>
  /\ dLast.kind = "value"

\* The implementation's call of the function it has at CallbackIndex: the
\* function's declared type, and the arguments of the call
CallbackIndex == dDef.impl.i

CallbackType == dDef.typeInfo.types[CallbackIndex + 1]

CallbackArgs == dDef.impl.value.items

\* The last call filled the last open index with checkTypes enabled, and the
\* implementation called the wrapped function
InvokedCallback ==
  /\ Called /\ dDef.checkTypes /\ Completing /\ Accepted.ok
  /\ dDef.impl.kind = "call"

\* The values that cross the wrapped function when it is called with the
\* declared number of arguments: the arguments, then the result
Crossing == Append(CallbackArgs, Positional[CallbackIndex + 1].items[1])

\* The solver's verdict on the k-th crossing value for the k-th declared
\* type, under the TypeVarMap the outer arguments led to
SharedVerdict(k) ==
  satisfactoryTypes(<<Accepted.typeVarMap>>, dDef.env, dDef.typeInfo, 1,
                    CallbackType.types[k], CallbackIndex,
                    <<CallbackType.keys[k]>>, <<Crossing[k]>>).isRight

\* The call raised one of the solver's three errors
Mismatch ==
  /\ dLast.kind = "raised"
  /\ dLast.err.kind \in {"Invalid value", "Type-variable constraint violation",
                         "Type-class constraint violation"}

\* C13: when the implementation calls a wrapped Function-typed argument,
\* a value crossing it (an argument or the result) that the solver rejects
\* for its declared type under the TypeVarMap of the outer arguments raises
\* a type error at the function's index, whether the declared type is the
\* type variable or a type that contains it.
C13_CallbackUnderSharedMap ==
  (InvokedCallback /\ Len(CallbackArgs) = Len(CallbackType.keys) - 1) =>
    ((\E k \in 1..Len(Crossing) : ~SharedVerdict(k))
       => (Mismatch /\ dLast.err.index = CallbackIndex))

\* C13 for the declared types that are the type variable itself: these the
\* wrapper checks against the shared map
C13_VariableCheckedUnderSharedMap ==
  (InvokedCallback /\ Len(CallbackArgs) = Len(CallbackType.keys) - 1) =>
    ((\E k \in 1..Len(Crossing) :
        CallbackType.types[k].type = VARIABLE_ /\ ~SharedVerdict(k))
       => (Mismatch /\ dLast.err.index = CallbackIndex))

\* The implementation passed a String to a function declared a -> a after a
\* Number was observed for a, and the call raised
C13_WitnessVariable ==
  /\ InvokedCallback /\ dDef.typeInfo.name = "app"
  /\ Positional[2] = Num(1)
  /\ Mismatch /\ dLast.err.propPath = <<"$1">>
  /\ dLast.invoked = <<>>

\* C14: a wrapped Function-typed argument called with a number of
\* arguments other than its declared parameter count raises the
\* wrong-number-of-arguments error for its index, with no argument
\* validated (the shared TypeVarMap is as the outer arguments left it) and
\* the user function not invoked; called with the declared number, it does
\* not raise that error.
C14_CallbackArityFirst ==
  InvokedCallback =>
    IF Len(CallbackArgs) # Len(CallbackType.keys) - 1
      THEN /\ dLast.kind = "raised"
           /\ dLast.err = invalidArgumentsLength_(dDef.env, dDef.typeInfo,
                             CallbackIndex, Len(CallbackType.keys) - 1,
                             CallbackArgs)
           /\ dLast.checked = <<>>
           /\ dLast.invoked = <<>>
           /\ dLast.box = Accepted.typeVarMap
      ELSE dLast.err.kind # "Wrong number of arguments"

\* A function declared a -> a was called with two Strings after a Number
\* was observed for a
C14_Witness ==
  /\ InvokedCallback
  /\ Len(CallbackArgs) = 2 /\ Len(CallbackType.keys) = 2
  /\ CallbackArgs[1] = Str(1) /\ Positional[2] = Num(1)
  /\ dLast.err.kind = "Wrong number of arguments"

\* The values array after the last call's loop: the argument where the call
\* supplies one for the index, else what the callee had stored
Stored ==
  [i \in 1..(Len(dDef.typeInfo.types) - 1) |->
     IF \E k \in 1..Len(Supplied) : Supplied[k][1] = i - 1
       THEN Supplied[CHOOSE k \in 1..Len(Supplied) : Supplied[k][1] = i - 1][2]
       ELSE CalleeState.values[i]]

\* The indexes the last call leaves open, in order
StillOpen ==
  SelectSeq(Callee.indexes,
            LAMBDA index : \A k \in 1..Len(Supplied) : Supplied[k][1] # index)

\* C15: with checkTypes disabled a call of a curried callable validates
\* nothing and raises no error of its own, whatever the arguments and
\* however many: the TypeVarMap stays empty; while an index is open (a
\* placeholder leaves its index open) it returns a callable holding the
\* stored values; once none is open it invokes the implementation with the
\* stored values, functions unwrapped, and what the implementation does is
\* the outcome.
C15_NoSolverWhenDisabled ==
  (Called /\ ~dDef.checkTypes) =>
    /\ dLast.checked = <<>>
    /\ CalleeState.typeVarMap = EmptyFn
    /\ IF StillOpen # <<>>
         THEN /\ dLast.kind = "callable"
              /\ dLast.fn = [typeVarMap |-> EmptyFn, values |-> Stored,
                             indexes |-> StillOpen]
              /\ dLast.implArgs = <<>>
         ELSE /\ dLast.implArgs = <<Stored>>
              /\ CASE dDef.impl.kind = "arg" ->
                         dLast.kind = "value"
                           /\ dLast.value = Stored[dDef.impl.i + 1]
                    [] dDef.impl.kind = "const" ->
                         dLast.kind = "value" /\ dLast.value = dDef.impl.value
                    [] dDef.impl.kind = "call" ->
                         IF Stored[CallbackIndex + 1].tag = "Function"
                           THEN /\ dLast.kind = "value"
                                /\ dLast.invoked = <<CallbackArgs>>
                                /\ dLast.value
                                     = Stored[CallbackIndex + 1].items[1]
                           ELSE /\ dLast.kind = "raised"
                                /\ dLast.err.kind = "not a function"
                    [] dDef.impl.kind = "tell" ->
                         IF Stored[CallbackIndex + 1].tag = "Function"
                           THEN /\ dLast.kind = "value"
                                /\ dLast.invoked = <<<<CallbackArgs[1]>>>>
                                /\ dLast.value = CallbackArgs[2]
                           ELSE /\ dLast.kind = "raised"
                                /\ dLast.err.kind = "not a function"

\* With checkTypes disabled a call with an argument the solver rejects, made
\* on a partial application, invoked the implementation
C15_Witness ==
  /\ Called /\ ~dDef.checkTypes
  /\ dLast.callee > 1
  /\ ~Accepted.ok
  /\ dLast.kind = "value"

\* With checkTypes disabled the implementation called its Function-typed
\* argument with a number of arguments other than the declared one
C15_WitnessUnwrapped ==
  /\ Called /\ ~dDef.checkTypes
  /\ dDef.impl.kind = "call"
  /\ Len(CallbackArgs) # Len(CallbackType.keys) - 1
  /\ dLast.invoked = <<CallbackArgs>>

\* With checkTypes disabled a call with more arguments than open indexes
\* invoked the implementation
C15_WitnessSurplus ==
  /\ Called /\ ~dDef.checkTypes
  /\ Len(dLast.args) > Open
  /\ dLast.kind = "value"

\* C19: with checkTypes enabled, a call with k arguments of a callable
\* with r < k open indexes, of a definition with n parameters, raises the
\* wrong-arity error that names the definition and tells n arguments
\* required and n + (k - r) received, whether or not the solver accepts the
\* arguments; nothing is validated and the implementation is not invoked.
C19_OverApplicationFirst ==
  (Called /\ dDef.checkTypes /\ Len(dLast.args) > Open) =>
    /\ dLast.kind = "raised"
    /\ dLast.err = invalidArgumentsLength(dDef.typeInfo.name,
                      Len(dDef.typeInfo.types) - 1,
                      (Len(dDef.typeInfo.types) - 1)
                        + (Len(dLast.args) - Open))
    /\ dLast.checked = <<>> /\ dLast.implArgs = <<>>

\* A partial application was called with one argument too many, the first
\* of them one the solver rejects
C19_Witness ==
  /\ Called /\ dDef.checkTypes
  /\ dLast.callee > 1
  /\ Open >= 1 /\ Len(dLast.args) = Open + 1
  /\ Open < Len(dDef.typeInfo.types) - 1
  /\ ~Accepted.ok
  /\ WrongArity

\* The implementation returned; what the solver says of its result for
\* last(types) under the content of a TypeVarMap
ImplReturned ==
  /\ Called /\ dDef.checkTypes /\ Completing /\ Accepted.ok
  /\ ImplOutcome.err.kind = "none"

ReturnVerdict(content) ==
  satisfactoryTypes(<<content>>, dDef.env, dDef.typeInfo, 1,
                    Last(dDef.typeInfo.types), Len(dDef.typeInfo.types) - 1,
                    <<>>, <<ImplOutcome.value>>).isRight

\* C26: when the implementation has returned, its result is accepted
\* exactly when the solver accepts it under the TypeVarMap the arguments led
\* to, whatever the wrapped functions have put in the box meanwhile.
C26_ReturnUnderArgumentsMap ==
  ImplReturned =>
    (dLast.kind = "value" <=> ReturnVerdict(Accepted.typeVarMap))

\* The implementation called its wrapped function, which left in the box a
\* map under which the result would be rejected; the result was returned
C26_Witness ==
  /\ ImplReturned
  /\ dLast.checked # <<>>
  /\ dLast.box # Accepted.typeVarMap
  /\ ~ReturnVerdict(dLast.box)
  /\ dLast.kind = "value"

\* The arguments the implementation passes to the function at CallbackIndex
PassedArgs ==
  IF dDef.impl.kind = "tell" THEN <<dDef.impl.value.items[1]>>
  ELSE dDef.impl.value.items

\* The last call filled the last open index with checkTypes enabled and the
\* implementation called, with the declared number of arguments, a wrapped
\* function all of whose declared types are type variables
VariableCallback ==
  /\ Called /\ dDef.checkTypes /\ Completing /\ Accepted.ok
  /\ dDef.impl.kind \in {"call", "tell"}
  /\ Len(PassedArgs) = Len(CallbackType.keys) - 1
  /\ \A k \in 1..Len(CallbackType.keys) :
       CallbackType.types[k].type = VARIABLE_

\* The values that cross the function: the arguments, then the result
Passing == Append(PassedArgs, Positional[CallbackIndex + 1].items[1])

\* Unification alone, of the crossing values from the k-th on with their
\* type variables, from the content of a TypeVarMap: whether every variable
\* keeps a candidate, and the values looked at
RECURSIVE Unify(_, _)
Unify(content, k) ==
  IF k > Len(Passing) THEN [ok |-> TRUE, seen |-> <<>>]
  ELSE LET next(updated) ==
             IF isEmpty(updated[CallbackType.types[k].name].types)
               THEN [ok |-> FALSE, seen |-> <<Passing[k]>>]
               ELSE [Unify(updated, k + 1) EXCEPT !.seen = <<Passing[k]>> \o @]
       IN next(updatedContent(dDef.env, content, CallbackType.types[k],
                              CallbackIndex, <<CallbackType.keys[k]>>,
                              <<Passing[k]>>))

\* The crossing values that fail a TypeClass the signature lists for the
\* type variable of their slot
FailingClass ==
  {k \in 1..Len(Passing) :
     /\ CallbackType.types[k].name \in DOMAIN dDef.typeInfo.constraints
     /\ \E i \in 1..Len(dDef.typeInfo.constraints[CallbackType.types[k].name]) :
          ~TypeClassTest(dDef.typeInfo.constraints[CallbackType.types[k].name][i],
                         Passing[k])}

\* C30: the values that cross a wrapped function at slots typed by a type
\* variable are unified and nothing else: the call raises a type error at
\* the function's index exactly when unification leaves a variable without
\* a candidate, and that error is never a type-class constraint violation,
\* whatever TypeClasses the signature lists for the variable.
C30_CallbackClassesUntested ==
  VariableCallback =>
    \E u \in {Unify(Accepted.typeVarMap, 1)} :
      /\ dLast.checked = u.seen
      /\ ~u.ok <=> (Mismatch /\ dLast.err.index = CallbackIndex)
      /\ ~u.ok => dLast.err.kind = "Type-variable constraint violation"

\* A function declared b -> a, b a Semigroup, was passed a Number, and the
\* call returned
C30_Witness ==
  /\ VariableCallback
  /\ 1 \in FailingClass
  /\ dLast.checked = Passing
  /\ dLast.kind = "value"

\* C25: the box made for a completing call is not assigned any more once
\* the call has returned: whatever user code does with a wrapped function
\* it kept from the call, the box keeps the map it held at the return.
C25_BoxEndsWithCall == [][dHeld.held => dHeld'.box = dHeld.box]_vars

-----------------------------------------------------------------------------
(* Properties of def *)

\* def was called, with arguments of the types it declares for them
Defined ==
  /\ dLast.kind # "none"
  /\ dDef.typeInfo.name.tag = "String"

RaisedRangeError == dLast.kind = "raised" /\ dLast.err.kind = "RangeError"

\* C17: def raises a range error exactly when types.length - 1 > 9,
\* whatever checkTypes is; for a types list with types.length - 1 <= 9 it
\* returns a curried callable.
C17_RangeErrorIffArityOverNine ==
  Defined =>
    IF Len(dDef.typeInfo.types) - 1 > 9
      THEN RaisedRangeError
      ELSE dLast.kind = "callable"
             /\ Len(dLast.fn.indexes) = Len(dDef.typeInfo.types) - 1

\* C17 but for the empty types list: def raises a range error exactly when
\* types.length - 1 > 9 or types is empty, whatever checkTypes is, and
\* else returns a curried callable with types.length - 1 open indexes.
C17_RangeErrorExceptEmptyList ==
  Defined =>
    IF Len(dDef.typeInfo.types) - 1 > 9 \/ Len(dDef.typeInfo.types) = 0
      THEN RaisedRangeError
      ELSE dLast.kind = "callable"
             /\ Len(dLast.fn.indexes) = Len(dDef.typeInfo.types) - 1

\* def returned a callable of nine parameters
C17_WitnessNine ==
  /\ Defined /\ ~dDef.checkTypes
  /\ Len(dDef.typeInfo.types) = 10
  /\ dLast.kind = "callable"

=============================================================================
